---- MODULE Spec2Model ----
(***************************************************************************)
(* State-machine model of the paper-trading execution engine               *)
(* (src/src/execution/paper_broker.py, class PaperBroker).                 *)
(*                                                                         *)
(* Units.  Python floats are modelled by exact scaled integers:            *)
(*   - a price is an integer number of price units; the feed quotes        *)
(*     multiples of SlippageDen, so that price * slippage is exact;        *)
(*   - money (balance, notional, fee) is counted in 1/CommissionDen of a   *)
(*     price unit, so that quantity * price * commission is exact;         *)
(*   - a position's average price is an exact rational <<num, den>>.       *)
(* Concurrency.  The engine runs on one asyncio event loop: a coroutine    *)
(* runs without interruption between two awaits on the data feed or on     *)
(* the sleep, so every action below is one such uninterrupted stretch.     *)
(*                                                                         *)
(* The module also models the retry manager and the circuit breaker of     *)
(* src/src/security/retry_policy.py (RetryManager, IdempotencyManager,     *)
(* CircuitBreaker), which run on the same event loop: a call through       *)
(* either is suspended while the wrapped function is awaited, and other    *)
(* calls may run meanwhile.                                                *)
(***************************************************************************)
EXTENDS Integers, Sequences, FiniteSets, TLC

\* ---------------------------------------------------------------- bounds
MaxCalls == 2
InitialBalance == 25000000
MaxRetryCalls == 2      \* calls of execute_with_retry made
MaxAttempts == 2        \* largest RetryConfig.max_attempts a call is given
MaxBreakerCalls == 4    \* calls made through the circuit breaker
FailureThreshold == 2   \* CircuitBreaker.failure_threshold

\* ------------------------------------------------------ program constants
SlippageDen == 10000
CommissionDen == 1000

\* ------------------------------------------------------------ value sets
None == <<>>
Some(v) == <<v>>
IsNone(x) == x = <<>>
Val(x) == x[1]

ErrNone == "None"

Symbols == {"EURUSD", "GBPUSD"}
Sides == {"BUY", "SELL"}
OrderTypes == {"MARKET", "LIMIT", "STOP", "STOP_LIMIT"}
TerminalStatuses == {"FILLED", "CANCELLED", "REJECTED"}
ActiveStatuses == {"PENDING", "SUBMITTED"}

FeedPrices == {10000, 20000}
FeedFailure == 0
FeedAnswers == FeedPrices \cup {FeedFailure}

ClientTokens == {1}

\* The submissions the callers make.
OrderInputs ==
    {[symbol |-> "EURUSD", side |-> "BUY", type |-> "MARKET", quantity |-> q,
      price |-> None, stop_price |-> None] : q \in {0, 1, 2}}
    \cup
    {[symbol |-> "EURUSD", side |-> "SELL", type |-> "MARKET", quantity |-> q,
      price |-> None, stop_price |-> None] : q \in {1, 2}}
    \cup
    {[symbol |-> "GBPUSD", side |-> "BUY", type |-> "MARKET", quantity |-> 1,
      price |-> None, stop_price |-> None],
     [symbol |-> "EURUSD", side |-> "BUY", type |-> "LIMIT", quantity |-> 1,
      price |-> Some(15000), stop_price |-> None]}

\* ---------------------------------------------------------------- state
VARIABLES
    connected,       \* PaperBroker.connected
    feedConnected,   \* what data_feed.is_connected() answers
    balance,         \* account.balance, in money units
    orders,          \* account.orders: sequence indexed by order id
    client_orders,   \* PaperBroker.client_orders: client_id -> order id
    executions,      \* account.executions
    positions,       \* account.positions: symbol -> position
    total_pnl,       \* account.total_pnl
    calls,           \* API calls: the coroutines of create_order / cancel_order
    tasks,           \* fill tasks created by asyncio.create_task
    probe,           \* a direct call of one of the pure functions: arguments, result
    refresh,         \* the update_positions_pnl call: its position and its dict iterator
    retry,           \* RetryManager: the idempotency cache and the execute_with_retry calls
    breaker          \* CircuitBreaker: its fields and the calls made through it

vars == <<connected, feedConnected, balance, orders, client_orders,
          executions, positions, total_pnl, calls, tasks, probe, refresh,
          retry, breaker>>

account == <<balance, orders, client_orders, executions, positions, total_pnl>>

\* --------------------------------------------------------- arithmetic
Abs(x) == IF x < 0 THEN -x ELSE x

RECURSIVE GCD(_, _)
GCD(a, b) == IF b = 0 THEN a ELSE GCD(b, a % b)

\* The rational n/d in lowest terms with a positive denominator.
Rat(n, d) ==
    LET g == GCD(Abs(n), Abs(d))
        s == IF d < 0 THEN -1 ELSE 1
    IN  <<(s * n) \div g, (s * d) \div g>>

RatOfInt(n) == <<n, 1>>

\* quantity * price, in money units
Notional(quantity, price) == quantity * price * CommissionDen

\* quantity * price * self.commission, in money units
Commission(quantity, price) == Notional(quantity, price) \div CommissionDen

\* Mutant of Slippage: the commission rate is applied instead.
Slippage_CommissionRate(current_price) == current_price \div CommissionDen

\* current_price * self.slippage
Slippage(current_price) == current_price \div SlippageDen

\* ------------------------------------------------------- pure functions

\* _validate_order, the rules checked before the price lookup:
\* the message of the InvalidOrderError raised, or ErrNone.
ValidationFailure(in) ==
    IF in.quantity <= 0 THEN "quantity must be positive"
    ELSE IF in.type \in {"LIMIT", "STOP_LIMIT"} /\ IsNone(in.price)
    THEN "price is required for limit orders"
    ELSE IF in.type \in {"STOP", "STOP_LIMIT"} /\ IsNone(in.stop_price)
    THEN "stop price is required for stop orders"
    ELSE IF ~IsNone(in.price) /\ Val(in.price) <= 0 THEN "price must be positive"
    ELSE IF ~IsNone(in.stop_price) /\ Val(in.stop_price) <= 0
    THEN "stop price must be positive"
    ELSE ErrNone

\* _validate_order, the rules checked before the price lookup:
\* the error raised, or ErrNone.
ValidateOrder(in) ==
    IF ValidationFailure(in) # ErrNone THEN "InvalidOrderError" ELSE ErrNone

\* Mutant of InsufficientFunds: the side is not looked at.
InsufficientFunds_AnySide(in, current_price, bal) ==
    Notional(in.quantity, current_price) > bal

\* _validate_order, the funds pre-check made with the looked-up price.
InsufficientFunds(in, current_price, bal) ==
    in.side = "BUY" /\ Notional(in.quantity, current_price) > bal

\* Mutant of CalculateFillPrice: the BUY LIMIT comparison is reversed.
CalculateFillPrice_LimitReversed(order, current_price) ==
    IF order.type = "MARKET" THEN
        IF order.side = "BUY"
        THEN Some(current_price + Slippage(current_price))
        ELSE Some(current_price - Slippage(current_price))
    ELSE IF order.type = "LIMIT" THEN
        IF order.side = "BUY" /\ current_price >= Val(order.price) THEN order.price
        ELSE IF order.side = "SELL" /\ current_price >= Val(order.price) THEN order.price
        ELSE None
    ELSE IF order.type = "STOP" THEN
        IF order.side = "BUY" /\ current_price >= Val(order.stop_price)
        THEN Some(current_price + Slippage(current_price))
        ELSE IF order.side = "SELL" /\ current_price <= Val(order.stop_price)
        THEN Some(current_price - Slippage(current_price))
        ELSE None
    ELSE IF order.type = "STOP_LIMIT" THEN
        IF order.side = "BUY" /\ current_price >= Val(order.stop_price) THEN
            IF current_price <= Val(order.price) THEN order.price ELSE None
        ELSE IF order.side = "SELL" /\ current_price <= Val(order.stop_price) THEN
            IF current_price >= Val(order.price) THEN order.price ELSE None
        ELSE None
    ELSE None

\* Mutant of CalculateFillPrice: a SELL LIMIT at exactly the limit price is not filled.
CalculateFillPrice_LimitStrict(order, current_price) ==
    IF order.type = "MARKET" THEN
        IF order.side = "BUY"
        THEN Some(current_price + Slippage(current_price))
        ELSE Some(current_price - Slippage(current_price))
    ELSE IF order.type = "LIMIT" THEN
        IF order.side = "BUY" /\ current_price <= Val(order.price) THEN order.price
        ELSE IF order.side = "SELL" /\ current_price > Val(order.price) THEN order.price
        ELSE None
    ELSE IF order.type = "STOP" THEN
        IF order.side = "BUY" /\ current_price >= Val(order.stop_price)
        THEN Some(current_price + Slippage(current_price))
        ELSE IF order.side = "SELL" /\ current_price <= Val(order.stop_price)
        THEN Some(current_price - Slippage(current_price))
        ELSE None
    ELSE IF order.type = "STOP_LIMIT" THEN
        IF order.side = "BUY" /\ current_price >= Val(order.stop_price) THEN
            IF current_price <= Val(order.price) THEN order.price ELSE None
        ELSE IF order.side = "SELL" /\ current_price <= Val(order.stop_price) THEN
            IF current_price >= Val(order.price) THEN order.price ELSE None
        ELSE None
    ELSE None

\* Mutant of CalculateFillPrice: a triggered STOP fills at its stop price.
CalculateFillPrice_StopAtStopPrice(order, current_price) ==
    IF order.type = "MARKET" THEN
        IF order.side = "BUY"
        THEN Some(current_price + Slippage(current_price))
        ELSE Some(current_price - Slippage(current_price))
    ELSE IF order.type = "LIMIT" THEN
        IF order.side = "BUY" /\ current_price <= Val(order.price) THEN order.price
        ELSE IF order.side = "SELL" /\ current_price >= Val(order.price) THEN order.price
        ELSE None
    ELSE IF order.type = "STOP" THEN
        IF order.side = "BUY" /\ current_price >= Val(order.stop_price)
        THEN order.stop_price
        ELSE IF order.side = "SELL" /\ current_price <= Val(order.stop_price)
        THEN order.stop_price
        ELSE None
    ELSE IF order.type = "STOP_LIMIT" THEN
        IF order.side = "BUY" /\ current_price >= Val(order.stop_price) THEN
            IF current_price <= Val(order.price) THEN order.price ELSE None
        ELSE IF order.side = "SELL" /\ current_price <= Val(order.stop_price) THEN
            IF current_price >= Val(order.price) THEN order.price ELSE None
        ELSE None
    ELSE None

\* Mutant of CalculateFillPrice: a triggered BUY STOP_LIMIT ignores its limit.
CalculateFillPrice_StopLimitUnbounded(order, current_price) ==
    IF order.type = "MARKET" THEN
        IF order.side = "BUY"
        THEN Some(current_price + Slippage(current_price))
        ELSE Some(current_price - Slippage(current_price))
    ELSE IF order.type = "LIMIT" THEN
        IF order.side = "BUY" /\ current_price <= Val(order.price) THEN order.price
        ELSE IF order.side = "SELL" /\ current_price >= Val(order.price) THEN order.price
        ELSE None
    ELSE IF order.type = "STOP" THEN
        IF order.side = "BUY" /\ current_price >= Val(order.stop_price)
        THEN Some(current_price + Slippage(current_price))
        ELSE IF order.side = "SELL" /\ current_price <= Val(order.stop_price)
        THEN Some(current_price - Slippage(current_price))
        ELSE None
    ELSE IF order.type = "STOP_LIMIT" THEN
        IF order.side = "BUY" /\ current_price >= Val(order.stop_price) THEN
            order.price
        ELSE IF order.side = "SELL" /\ current_price <= Val(order.stop_price) THEN
            IF current_price >= Val(order.price) THEN order.price ELSE None
        ELSE None
    ELSE None

\* _calculate_fill_price: Some(fill price), or None when not fillable.
CalculateFillPrice(order, current_price) ==
    IF order.type = "MARKET" THEN
        IF order.side = "BUY"
        THEN Some(current_price + Slippage(current_price))
        ELSE Some(current_price - Slippage(current_price))
    ELSE IF order.type = "LIMIT" THEN
        IF order.side = "BUY" /\ current_price <= Val(order.price) THEN order.price
        ELSE IF order.side = "SELL" /\ current_price >= Val(order.price) THEN order.price
        ELSE None
    ELSE IF order.type = "STOP" THEN
        IF order.side = "BUY" /\ current_price >= Val(order.stop_price)
        THEN Some(current_price + Slippage(current_price))
        ELSE IF order.side = "SELL" /\ current_price <= Val(order.stop_price)
        THEN Some(current_price - Slippage(current_price))
        ELSE None
    ELSE IF order.type = "STOP_LIMIT" THEN
        IF order.side = "BUY" /\ current_price >= Val(order.stop_price) THEN
            IF current_price <= Val(order.price) THEN order.price ELSE None
        ELSE IF order.side = "SELL" /\ current_price <= Val(order.stop_price) THEN
            IF current_price >= Val(order.price) THEN order.price ELSE None
        ELSE None
    ELSE None

\* The Position created for a symbol that has none.
NewPosition == [quantity |-> 0, average_price |-> RatOfInt(0),
                unrealized_pnl |-> RatOfInt(0), realized_pnl |-> 0]

\* The average price _update_position computes.
NewAveragePrice(position, new_quantity, quantity, price) ==
    IF new_quantity = 0 THEN RatOfInt(0)
    ELSE IF (position.quantity > 0 /\ new_quantity > 0)
            \/ (position.quantity < 0 /\ new_quantity < 0)
    THEN Rat(position.quantity * position.average_price[1]
                + quantity * price * position.average_price[2],
             new_quantity * position.average_price[2])
    ELSE RatOfInt(price)

\* Mutant of UpdatePosition: a SELL is added to the quantity like a BUY.
UpdatePosition_SideIgnored(pos, symbol, side, quantity, price) ==
    LET position == IF symbol \in DOMAIN pos THEN pos[symbol] ELSE NewPosition
        new_quantity == position.quantity + quantity
        updated == [position EXCEPT
                      !.quantity = new_quantity,
                      !.average_price =
                          NewAveragePrice(position, new_quantity, quantity, price)]
    IN  IF new_quantity = 0
        THEN [s \in (DOMAIN pos) \ {symbol} |-> pos[s]]
        ELSE [s \in (DOMAIN pos) \cup {symbol} |->
                 IF s = symbol THEN updated ELSE pos[s]]

\* Mutant of UpdatePosition: a position whose quantity returns to 0 is kept.
UpdatePosition_KeepsClosed(pos, symbol, side, quantity, price) ==
    LET position == IF symbol \in DOMAIN pos THEN pos[symbol] ELSE NewPosition
        new_quantity == IF side = "BUY" THEN position.quantity + quantity
                        ELSE position.quantity - quantity
        updated == [position EXCEPT
                      !.quantity = new_quantity,
                      !.average_price =
                          NewAveragePrice(position, new_quantity, quantity, price)]
    IN  [s \in (DOMAIN pos) \cup {symbol} |->
            IF s = symbol THEN updated ELSE pos[s]]

\* _update_position: the position map after a fill.
UpdatePosition(pos, symbol, side, quantity, price) ==
    LET position == IF symbol \in DOMAIN pos THEN pos[symbol] ELSE NewPosition
        new_quantity == IF side = "BUY" THEN position.quantity + quantity
                        ELSE position.quantity - quantity
        updated == [position EXCEPT
                      !.quantity = new_quantity,
                      !.average_price =
                          NewAveragePrice(position, new_quantity, quantity, price)]
    IN  IF new_quantity = 0
        THEN [s \in (DOMAIN pos) \ {symbol} |-> pos[s]]
        ELSE [s \in (DOMAIN pos) \cup {symbol} |->
                 IF s = symbol THEN updated ELSE pos[s]]

\* Mutant of FillRejected: the funds check is applied to the wrong side.
FillRejected_WrongSide(order, fill_price, bal) ==
    order.side = "SELL"
    /\ Notional(order.quantity, fill_price) + Commission(order.quantity, fill_price) > bal

\* _fill_order, the funds check of a BUY at execution time.
FillRejected(order, fill_price, bal) ==
    order.side = "BUY"
    /\ Notional(order.quantity, fill_price) + Commission(order.quantity, fill_price) > bal

\* Mutant of BalanceAfterFill: a SELL is credited the commission.
BalanceAfterFill_FeeCredited(order, fill_price, bal) ==
    IF order.side = "BUY"
    THEN bal - (Notional(order.quantity, fill_price) + Commission(order.quantity, fill_price))
    ELSE bal + Notional(order.quantity, fill_price) + Commission(order.quantity, fill_price)

\* _fill_order: the balance after the fill is applied.
BalanceAfterFill(order, fill_price, bal) ==
    IF order.side = "BUY"
    THEN bal - (Notional(order.quantity, fill_price) + Commission(order.quantity, fill_price))
    ELSE bal + Notional(order.quantity, fill_price) - Commission(order.quantity, fill_price)

\* Mutant of NewExecution: the commission is not recorded as the fee.
NewExecution_NoFee(order, fill_price, execs) ==
    [id |-> Len(execs) + 1, order_id |-> order.id, symbol |-> order.symbol,
     side |-> order.side, quantity |-> order.quantity, price |-> fill_price,
     fee |-> 0]

\* _fill_order: the Execution appended for the fill.
NewExecution(order, fill_price, execs) ==
    [id |-> Len(execs) + 1, order_id |-> order.id, symbol |-> order.symbol,
     side |-> order.side, quantity |-> order.quantity, price |-> fill_price,
     fee |-> Commission(order.quantity, fill_price)]

\* Mutant of NewOrder: the order is born SUBMITTED.
NewOrder_BornSubmitted(id, client_id, in) ==
    [id |-> id, client_id |-> client_id, symbol |-> in.symbol, side |-> in.side,
     type |-> in.type, quantity |-> in.quantity, price |-> in.price,
     stop_price |-> in.stop_price, status |-> "SUBMITTED", filled_quantity |-> 0,
     average_price |-> None, error_message |-> ErrNone]

\* The Order dataclass as create_order builds it.
NewOrder(id, client_id, in) ==
    [id |-> id, client_id |-> client_id, symbol |-> in.symbol, side |-> in.side,
     type |-> in.type, quantity |-> in.quantity, price |-> in.price,
     stop_price |-> in.stop_price, status |-> "PENDING", filled_quantity |-> 0,
     average_price |-> None, error_message |-> ErrNone]

\* Mutant of ExistingOrder: only a SUBMITTED order blocks its token.
ExistingOrder_SubmittedOnly(client_id) ==
    IF client_id \in DOMAIN client_orders
       /\ client_orders[client_id] \in 1..Len(orders)
       /\ orders[client_orders[client_id]].status \in {"SUBMITTED"}
    THEN Some(client_orders[client_id])
    ELSE None

\* Mutant of ExistingOrder: a bound order blocks its token in any status.
ExistingOrder_AnyStatus(client_id) ==
    IF client_id \in DOMAIN client_orders
       /\ client_orders[client_id] \in 1..Len(orders)
    THEN Some(client_orders[client_id])
    ELSE None

\* create_order's idempotency lookup: the id to return, or None.
ExistingOrder(client_id) ==
    IF client_id \in DOMAIN client_orders
       /\ client_orders[client_id] \in 1..Len(orders)
       /\ orders[client_orders[client_id]].status \in ActiveStatuses
    THEN Some(client_orders[client_id])
    ELSE None

\* Exact sum of two rationals.
RatAdd(a, b) == Rat(a[1] * b[2] + b[1] * a[2], a[2] * b[2])

RECURSIVE TotalUnrealizedPnl(_, _)
\* get_account_summary's loop: the sum of unrealized_pnl over the positions.
TotalUnrealizedPnl(pos, symbols) ==
    IF symbols = {} THEN RatOfInt(0)
    ELSE LET s == CHOOSE x \in symbols : TRUE
         IN RatAdd(pos[s].unrealized_pnl, TotalUnrealizedPnl(pos, symbols \ {s}))

\* get_account_summary: a read of the account, no state change.
GetAccountSummary ==
    LET total_unrealized_pnl == TotalUnrealizedPnl(positions, DOMAIN positions)
    IN [balance          |-> balance,
        total_value      |-> RatAdd(RatOfInt(balance), total_unrealized_pnl),
        unrealized_pnl   |-> total_unrealized_pnl,
        realized_pnl     |-> total_pnl,
        positions_count  |-> Cardinality(DOMAIN positions),
        orders_count     |-> Len(orders),
        executions_count |-> Len(executions)]

\* ------------------------------------------------------------- initial state
NoProbe == [fn |-> "none"]

\* No update_positions_pnl call made yet. used, len and pos are the dict
\* iterator's size snapshot, count of items still due and next entry index;
\* entry is the index of the entry (the Position object) being refreshed,
\* current_price the feed's last answer to the call.
NoRefresh == [pc |-> "idle", used |-> 0, len |-> 0, pos |-> 1, entry |-> 0,
              current_price |-> 0]

\* An execute_with_retry call not made yet. attempt is the loop variable,
\* invoked and failures the number of times the call has invoked the function
\* and seen it raise, invocation the function's count of the invocation the
\* call awaits or ended with.
IdleRetryCall ==
    [pc |-> "idle", idempotent |-> FALSE,
     config |-> [max_attempts |-> 0, retry_on_exceptions |-> {}, stop_on_exceptions |-> {}],
     attempt |-> 0, invoked |-> 0, failures |-> 0, invocation |-> 0,
     last_exception |-> None,
     result |-> None, error |-> None]

\* RetryManager(): an empty execution_cache; execution_count is the wrapped
\* function's own count of its invocations, evicted records that
\* get_cached_result has dropped an entry older than cache_ttl.
NoRetry ==
    [execution_cache |-> None, expired |-> FALSE, evicted |-> FALSE,
     execution_count |-> 0, calls |-> [c \in 1..MaxRetryCalls |-> IdleRetryCall]]

\* A call through the circuit breaker not made yet; trial marks the call
\* that moved the breaker from OPEN to HALF_OPEN.
IdleBreakerCall == [pc |-> "idle", trial |-> FALSE]

\* CircuitBreaker(): CLOSED with no failure counted. last_failure_time is
\* None, or the time of the last failure as the comparison of call() sees
\* it: "recent" while time.time() - last_failure_time <= timeout, "old"
\* after that.
NoBreaker ==
    [state |-> "CLOSED", failure_count |-> 0, last_failure_time |-> None,
     calls |-> [c \in 1..MaxBreakerCalls |-> IdleBreakerCall]]

IdleCall == [op |-> "none", pc |-> "idle", in |-> None, token |-> None,
             client_id |-> 0, target |-> 0, current_price |-> 0, result |-> None, error |-> ErrNone]

Init ==
    /\ connected = FALSE
    /\ feedConnected \in BOOLEAN
    /\ balance = InitialBalance
    /\ orders = <<>>
    /\ client_orders = <<>>
    /\ executions = <<>>
    /\ positions = <<>>
    /\ total_pnl = 0
    /\ calls = [c \in 1..MaxCalls |-> IdleCall]
    /\ tasks = <<>>
    /\ probe = NoProbe
    /\ refresh = NoRefresh
    /\ retry = NoRetry
    /\ breaker = NoBreaker

\* --------------------------------------------------- connection handling
\* PaperBroker.connect: connects the feed when it is down, sets connected.
Connect ==
    /\ ~connected \/ ~feedConnected
    /\ connected' = TRUE
    /\ feedConnected' = TRUE
    /\ UNCHANGED <<retry, breaker, account, calls, tasks, probe, refresh>>

\* PaperBroker.disconnect
Disconnect ==
    /\ connected
    /\ connected' = FALSE
    /\ UNCHANGED <<retry, breaker, feedConnected, account, calls, tasks, probe, refresh>>

\* The data feed loses its connection.
FeedDrop ==
    /\ feedConnected
    /\ feedConnected' = FALSE
    /\ UNCHANGED <<retry, breaker, connected, account, calls, tasks, probe, refresh>>

\* ------------------------------------------------------------ API calls
\* A caller may start call c when the calls before it have been started.
CanStart(c) ==
    /\ calls[c].pc = "idle"
    /\ \A d \in 1..(c - 1) : calls[d].pc # "idle"

Raise(c, err) == [calls EXCEPT ![c].pc = "raised", ![c].error = err]
Return(c, res) == [calls EXCEPT ![c].pc = "returned", ![c].result = Some(res)]

\* Mutant of EnterCall: self.connected is not looked at.
EnterCall_IgnoresFlag(c, call) ==
    calls' = [calls EXCEPT ![c] = [call EXCEPT !.pc = "conn"]]

\* is_connected, up to its await of data_feed.is_connected(): with
\* self.connected false it answers false without suspending.
EnterCall(c, call) ==
    IF connected
    THEN calls' = [calls EXCEPT ![c] = [call EXCEPT !.pc = "conn"]]
    ELSE calls' = [calls EXCEPT ![c] = [call EXCEPT !.pc = "raised",
                                                   !.error = "BrokerError"]]

\* create_order is called.
CreateOrderCall(c, in, token) ==
    /\ CanStart(c)
    /\ EnterCall(c, [IdleCall EXCEPT !.op = "create", !.in = Some(in), !.token = token])
    /\ UNCHANGED <<retry, breaker, connected, feedConnected, account, tasks, probe, refresh>>

\* Mutant of StoreOrder: no fill task is scheduled.
StoreOrder_NoTask(c, client_id, current_price) ==
    LET order_id == Len(orders) + 1
    IN  /\ orders' = Append(orders, NewOrder(order_id, client_id, Val(calls[c].in)))
        /\ client_orders' = (client_id :> order_id) @@ client_orders
        /\ tasks' = tasks
        /\ calls' = [Return(c, order_id) EXCEPT ![c].client_id = client_id,
                                                 ![c].current_price = current_price]

\* Mutant of StoreOrder: the fill task is scheduled twice.
StoreOrder_TwoTasks(c, client_id, current_price) ==
    LET order_id == Len(orders) + 1
        task == [order_id |-> order_id, pc |-> "sleep", current_price |-> 0]
    IN  /\ orders' = Append(orders, NewOrder(order_id, client_id, Val(calls[c].in)))
        /\ client_orders' = (client_id :> order_id) @@ client_orders
        /\ tasks' = Append(Append(tasks, task), task)
        /\ calls' = [Return(c, order_id) EXCEPT ![c].client_id = client_id,
                                                 ![c].current_price = current_price]

\* create_order stores the order, binds the token, schedules the fill task.
StoreOrder(c, client_id, current_price) ==
    LET order_id == Len(orders) + 1
    IN  /\ orders' = Append(orders, NewOrder(order_id, client_id, Val(calls[c].in)))
        /\ client_orders' = (client_id :> order_id) @@ client_orders
        /\ tasks' = Append(tasks, [order_id |-> order_id, pc |-> "sleep",
                                 current_price |-> 0])
        /\ calls' = [Return(c, order_id) EXCEPT ![c].client_id = client_id,
                                                 ![c].current_price = current_price]

\* create_order resumes with the feed's connectivity answer and runs up to
\* its return, its exception, or the await of the price in _validate_order.
CreateOrderConn(c) ==
    LET call == calls[c]
        in == Val(call.in)
        client_id == IF IsNone(call.token) THEN -c ELSE Val(call.token)
        existing == ExistingOrder(client_id)
    IN  /\ call.op = "create" /\ call.pc = "conn"
        /\ UNCHANGED <<retry, breaker, connected, feedConnected, probe, refresh>>
        /\ IF ~feedConnected THEN
               /\ calls' = Raise(c, "BrokerError")
               /\ UNCHANGED <<account, tasks>>
           ELSE IF ~IsNone(existing) THEN
               /\ calls' = [Return(c, Val(existing)) EXCEPT ![c].client_id = client_id]
               /\ UNCHANGED <<account, tasks>>
           ELSE IF ValidateOrder(in) # ErrNone THEN
               /\ calls' = [Raise(c, ValidateOrder(in)) EXCEPT ![c].client_id = client_id]
               /\ UNCHANGED <<account, tasks>>
           ELSE IF in.type = "MARKET" THEN
               /\ calls' = [calls EXCEPT ![c].pc = "price", ![c].client_id = client_id]
               /\ UNCHANGED <<account, tasks>>
           ELSE
               /\ StoreOrder(c, client_id, 0)
               /\ UNCHANGED <<balance, executions, positions, total_pnl>>

\* Mutant of CreateOrderPrice: the order is stored before the funds check.
CreateOrderPrice_StoreBeforeCheck(c, answer) ==
    LET call == calls[c]
        in == Val(call.in)
    IN  /\ call.op = "create" /\ call.pc = "price"
        /\ UNCHANGED <<retry, breaker, connected, feedConnected, probe, refresh>>
        /\ IF answer = FeedFailure THEN
               /\ calls' = [Raise(c, "DataFeedError") EXCEPT ![c].current_price = answer]
               /\ UNCHANGED <<account, tasks>>
           ELSE IF InsufficientFunds(in, answer, balance) THEN
               /\ orders' = Append(orders, NewOrder(Len(orders) + 1, call.client_id, in))
               /\ client_orders' = (call.client_id :> (Len(orders) + 1)) @@ client_orders
               /\ calls' = [Raise(c, "InsufficientFundsError")
                               EXCEPT ![c].current_price = answer]
               /\ UNCHANGED <<balance, executions, positions, total_pnl, tasks>>
           ELSE
               /\ StoreOrder(c, call.client_id, answer)
               /\ UNCHANGED <<balance, executions, positions, total_pnl>>

\* create_order of a MARKET order resumes with the feed's price answer.
CreateOrderPrice(c, answer) ==
    LET call == calls[c]
        in == Val(call.in)
    IN  /\ call.op = "create" /\ call.pc = "price"
        /\ UNCHANGED <<retry, breaker, connected, feedConnected, probe, refresh>>
        /\ IF answer = FeedFailure THEN
               /\ calls' = [Raise(c, "DataFeedError") EXCEPT ![c].current_price = answer]
               /\ UNCHANGED <<account, tasks>>
           ELSE IF InsufficientFunds(in, answer, balance) THEN
               /\ calls' = [Raise(c, "InsufficientFundsError")
                               EXCEPT ![c].current_price = answer]
               /\ UNCHANGED <<account, tasks>>
           ELSE
               /\ StoreOrder(c, call.client_id, answer)
               /\ UNCHANGED <<balance, executions, positions, total_pnl>>

\* cancel_order is called.
CancelOrderCall(c, order_id) ==
    /\ CanStart(c)
    /\ EnterCall(c, [IdleCall EXCEPT !.op = "cancel", !.target = order_id])
    /\ UNCHANGED <<retry, breaker, connected, feedConnected, account, tasks, probe, refresh>>

\* Mutant of Cancellable: FILLED is missing from the terminal statuses.
Cancellable_FilledToo(order_id) ==
    /\ order_id \in 1..Len(orders)
    /\ orders[order_id].status \notin {"CANCELLED", "REJECTED"}

\* cancel_order: may the order be cancelled?
Cancellable(order_id) ==
    /\ order_id \in 1..Len(orders)
    /\ orders[order_id].status \notin TerminalStatuses

\* cancel_order resumes with the feed's connectivity answer and runs to its end.
CancelOrderConn(c) ==
    LET call == calls[c]
    IN  /\ call.op = "cancel" /\ call.pc = "conn"
        /\ UNCHANGED <<retry, breaker, connected, feedConnected, tasks, probe, refresh,
                       balance, client_orders, executions, positions, total_pnl>>
        /\ IF ~feedConnected THEN
               /\ calls' = Raise(c, "BrokerError")
               /\ UNCHANGED orders
           ELSE IF Cancellable(call.target) THEN
               /\ orders' = [orders EXCEPT ![call.target].status = "CANCELLED"]
               /\ calls' = Return(c, TRUE)
           ELSE
               /\ calls' = Return(c, FALSE)
               /\ UNCHANGED orders

\* ------------------------------------------------------------ fill tasks
\* _process_order: the sleep is over, the task asks the feed for the price.
ProcessWake(t) ==
    /\ t \in 1..Len(tasks)
    /\ tasks[t].pc = "sleep"
    /\ tasks' = [tasks EXCEPT ![t].pc = "price"]
    /\ UNCHANGED <<retry, breaker, connected, feedConnected, account, calls, probe, refresh>>

\* Mutant of RejectOrder: the error message is not recorded.
RejectOrder_NoMessage(order, message) ==
    [order EXCEPT !.status = "REJECTED"]

\* _process_order: the order as its evaluation marks it REJECTED.
RejectOrder(order, message) ==
    [order EXCEPT !.status = "REJECTED", !.error_message = message]

\* Mutant of FilledOrder: the filled quantity is not recorded.
FilledOrder_NoQuantity(order, fill_price) ==
    [order EXCEPT !.status = "FILLED", !.average_price = Some(fill_price)]

\* _fill_order: the order as a fill updates it.
FilledOrder(order, fill_price) ==
    [order EXCEPT !.status = "FILLED", !.filled_quantity = order.quantity,
                  !.average_price = Some(fill_price)]

\* Mutant of FillOrder: the position map is updated from a stale, empty copy.
FillOrder_StalePositions(order, fill_price) ==
    IF FillRejected(order, fill_price, balance) THEN
        /\ orders' = [orders EXCEPT ![order.id] =
                         RejectOrder(order, "insufficient funds at execution")]
        /\ UNCHANGED <<balance, executions, positions>>
    ELSE
        /\ balance' = BalanceAfterFill(order, fill_price, balance)
        /\ executions' = Append(executions, NewExecution(order, fill_price, executions))
        /\ orders' = [orders EXCEPT ![order.id] = FilledOrder(order, fill_price)]
        /\ positions' = UpdatePosition(<<>>, order.symbol, order.side,
                                       order.quantity, fill_price)

\* _fill_order with _update_position, which has no await: one atomic step.
FillOrder(order, fill_price) ==
    IF FillRejected(order, fill_price, balance) THEN
        /\ orders' = [orders EXCEPT ![order.id] =
                         RejectOrder(order, "insufficient funds at execution")]
        /\ UNCHANGED <<balance, executions, positions>>
    ELSE
        /\ balance' = BalanceAfterFill(order, fill_price, balance)
        /\ executions' = Append(executions, NewExecution(order, fill_price, executions))
        /\ orders' = [orders EXCEPT ![order.id] = FilledOrder(order, fill_price)]
        /\ positions' = UpdatePosition(positions, order.symbol, order.side,
                                       order.quantity, fill_price)

\* Mutant of ProcessPrice: a feed error ends the task without a trace on the order.
ProcessPrice_FailureUnrecorded(t, answer) ==
    /\ t \in 1..Len(tasks)
    /\ tasks[t].pc = "price"
    /\ tasks' = [tasks EXCEPT ![t].pc = "done", ![t].current_price = answer]
    /\ UNCHANGED <<retry, breaker, connected, feedConnected, calls, probe, refresh,
                   client_orders, total_pnl>>
    /\ LET order == orders[tasks[t].order_id]
           fill_price == CalculateFillPrice(order, answer)
       IN  IF answer = FeedFailure THEN
               /\ UNCHANGED <<orders, balance, executions, positions>>
           ELSE IF IsNone(fill_price) THEN
               /\ orders' = [orders EXCEPT ![order.id] =
                                RejectOrder(order, "cannot be filled at current price")]
               /\ UNCHANGED <<balance, executions, positions>>
           ELSE FillOrder(order, Val(fill_price))

\* _process_order resumes with the feed's price answer and runs to its end.
ProcessPrice(t, answer) ==
    /\ t \in 1..Len(tasks)
    /\ tasks[t].pc = "price"
    /\ tasks' = [tasks EXCEPT ![t].pc = "done", ![t].current_price = answer]
    /\ UNCHANGED <<retry, breaker, connected, feedConnected, calls, probe, refresh,
                   client_orders, total_pnl>>
    /\ LET order == orders[tasks[t].order_id]
           fill_price == CalculateFillPrice(order, answer)
       IN  IF answer = FeedFailure THEN
               /\ orders' = [orders EXCEPT ![order.id] =
                                RejectOrder(order, "price feed error")]
               /\ UNCHANGED <<balance, executions, positions>>
           ELSE IF IsNone(fill_price) THEN
               /\ orders' = [orders EXCEPT ![order.id] =
                                RejectOrder(order, "cannot be filled at current price")]
               /\ UNCHANGED <<balance, executions, positions>>
           ELSE FillOrder(order, Val(fill_price))

\* ------------------------------------------------------------ PnL refresh
RECURSIVE DictEntries(_)
\* The entries of the positions dict in insertion order, deleted ones
\* included: _update_position inserts a Position on the first fill of a
\* symbol and deletes it when its quantity is back at 0; a dict keeps the
\* slot of a deleted entry, and a later insert of the symbol is a new entry
\* (a new Position object).
DictEntries(execs) ==
    IF execs = <<>> THEN <<>>
    ELSE LET e == execs[Len(execs)]
             before == DictEntries(SubSeq(execs, 1, Len(execs) - 1))
             D == IF e.side = "BUY" THEN e.quantity ELSE -e.quantity
             at == {i \in 1..Len(before) : before[i].live /\ before[i].symbol = e.symbol}
         IN IF at = {}
            THEN Append(before, [symbol |-> e.symbol, quantity |-> D, live |-> TRUE])
            ELSE LET i == CHOOSE x \in at : TRUE
                 IN [before EXCEPT ![i].quantity = @ + D,
                                   ![i].live = (before[i].quantity + D # 0)]

\* The first entry at or after pos that is not deleted, 0 when there is none.
NextEntry(entries, pos) ==
    LET rest == {i \in pos..Len(entries) : entries[i].live}
    IN IF rest = {} THEN 0 ELSE CHOOSE i \in rest : \A j \in rest : i <= j

RefreshReturned == [NoRefresh EXCEPT !.pc = "returned"]
RefreshRaised == [NoRefresh EXCEPT !.pc = "raised"]

\* The for statement of update_positions_pnl asks the dict iterator for the
\* next item. A dict whose size differs from the iterator's snapshot raises
\* RuntimeError; an exhausted iterator ends the loop and the call; a dict of
\* the same size whose keys changed either raises RuntimeError or yields the
\* entry, depending on the interpreter. Otherwise the entry is yielded and
\* the call awaits its price.
IterNext(used, len, pos) ==
    LET i == NextEntry(DictEntries(executions), pos)
        yield == [pc |-> "price", used |-> used,
                  len |-> IF len > 0 THEN len - 1 ELSE 0, pos |-> i + 1, entry |-> i,
                  current_price |-> 0]
    IN  IF used # Cardinality(DOMAIN positions) THEN {RefreshRaised}
        ELSE IF i = 0 THEN {RefreshReturned}
        ELSE IF len = 0 THEN {RefreshRaised, yield}
        ELSE {yield}

\* Mutant of UnrealizedPnl: a short position is valued like a long one bought.
UnrealizedPnl_ShortAsLong(position, current_price) ==
    Rat((current_price * position.average_price[2] - position.average_price[1])
            * Abs(position.quantity) * CommissionDen,
        position.average_price[2])

\* update_positions_pnl: the unrealized PnL of a position, in money units.
UnrealizedPnl(position, current_price) ==
    IF position.quantity > 0
    THEN Rat((current_price * position.average_price[2] - position.average_price[1])
                * position.quantity * CommissionDen,
             position.average_price[2])
    ELSE Rat((position.average_price[1] - current_price * position.average_price[2])
                * Abs(position.quantity) * CommissionDen,
             position.average_price[2])

\* update_positions_pnl is called: the loop starts and, unless there is no
\* position, awaits the price of the first one.
RefreshCall ==
    /\ refresh.pc \in {"idle", "returned", "raised"}
    /\ LET size == Cardinality(DOMAIN positions)
       IN refresh' \in IterNext(size, size, 1)
    /\ UNCHANGED <<retry, breaker, connected, feedConnected, account, calls, tasks, probe>>

\* update_positions_pnl resumes with the feed's price answer: it writes the
\* unrealized PnL into the Position object it holds (an error answer is
\* logged and skipped), and the loop goes on to the next item. A Position
\* that a fill deleted meanwhile is no longer in the dict, so writing into it
\* changes nothing the account can reach.
RefreshPrice(answer) ==
    /\ refresh.pc = "price"
    /\ LET held == DictEntries(executions)[refresh.entry]
       IN IF answer # FeedFailure /\ held.live
          THEN positions' = [positions EXCEPT ![held.symbol].unrealized_pnl =
                                UnrealizedPnl(positions[held.symbol], answer)]
          ELSE UNCHANGED positions
    /\ \E next \in IterNext(refresh.used, refresh.len, refresh.pos) :
          refresh' = [next EXCEPT !.current_price = answer]
    /\ UNCHANGED <<retry, breaker, connected, feedConnected, balance, orders,
                   client_orders, executions, total_pnl, calls, tasks, probe>>

\* ---------------------------------------------------------- retry manager
\* Everything the retry manager and the circuit breaker leave alone.
engine == <<connected, feedConnected, account, calls, tasks, probe, refresh>>

\* The exception classes the wrapped function raises, and the RetryConfig
\* objects the callers pass: every exception retried, TimeoutError stopping,
\* ValueError not covered, and nothing retried.
ExceptionClasses == {"TimeoutError", "ValueError"}

RetryConfigs ==
    [max_attempts : 0..MaxAttempts,
     retry_on_exceptions : {ExceptionClasses, {"TimeoutError"}},
     stop_on_exceptions : {{}, {"TimeoutError"}}]

\* raise last_exception with last_exception = None.
RaiseNone == [class |-> "TypeError", invocation |-> 0]

\* IdempotencyManager.get_cached_result(key): the cached result while the
\* entry is younger than cache_ttl, else None.
GetCachedResult(execution_cache, expired) ==
    IF ~IsNone(execution_cache) /\ ~expired THEN execution_cache ELSE None

\* get_cached_result deletes an entry it finds too old.
CacheDropped(execution_cache, expired) == ~IsNone(execution_cache) /\ expired

\* The except branch of the loop: with the exception of class e raised in
\* this attempt the call re-raises it, or sleeps and goes round again.
AfterException_OneMore(config, attempt, e) ==
    IF e \in config.stop_on_exceptions THEN "raise"
    ELSE IF e \notin config.retry_on_exceptions THEN "raise"
    ELSE IF attempt > config.max_attempts THEN "raise"
    ELSE "sleep"

AfterException(config, attempt, e) ==
    IF e \in config.stop_on_exceptions THEN "raise"
    ELSE IF e \notin config.retry_on_exceptions THEN "raise"
    ELSE IF attempt = config.max_attempts THEN "raise"
    ELSE "sleep"

\* An iteration of the loop begins: the function is invoked, counts the
\* invocation and suspends; the call awaits it.
Invoke(call, execution_count) ==
    [call EXCEPT !.pc = "func", !.attempt = @ + 1, !.invoked = @ + 1,
                 !.invocation = execution_count + 1]

\* execute_with_retry(func, execution_id, params, retry_config, idempotent)
\* is called: an idempotent call returns the cached result if there is one;
\* otherwise the loop starts and the first attempt awaits the function. With
\* max_attempts = 0 the loop has no iteration and raise last_exception
\* raises None, a TypeError.
ExecuteWithRetry(c, idempotent, config) ==
    /\ retry.calls[c].pc = "idle"
    /\ LET cached_result ==
               IF idempotent
               THEN GetCachedResult(retry.execution_cache, retry.expired)
               ELSE None
           dropped == idempotent /\ CacheDropped(retry.execution_cache, retry.expired)
           looked == [retry EXCEPT !.execution_cache = IF dropped THEN None ELSE @,
                                   !.expired = IF dropped THEN FALSE ELSE @,
                                   !.evicted = @ \/ dropped]
           call == [IdleRetryCall EXCEPT !.idempotent = idempotent, !.config = config]
       IN IF ~IsNone(cached_result)
          THEN retry' = [looked EXCEPT !.calls[c] =
                            [call EXCEPT !.pc = "returned", !.result = cached_result]]
          ELSE IF config.max_attempts = 0
          THEN retry' = [looked EXCEPT !.calls[c] =
                            [call EXCEPT !.pc = "raised", !.error = Some(RaiseNone)]]
          ELSE retry' = [looked EXCEPT !.execution_count = @ + 1,
                                       !.calls[c] = Invoke(call, retry.execution_count)]
    /\ UNCHANGED <<engine, breaker>>

\* The awaited function returns: an idempotent call caches the result, and
\* the call returns it. The result is the count of the invocation that
\* produced it.
FuncReturns(c) ==
    /\ retry.calls[c].pc = "func"
    /\ LET call == retry.calls[c]
           result == Some(call.invocation)
       IN retry' = [retry EXCEPT
                       !.execution_cache = IF call.idempotent THEN result ELSE @,
                       !.expired = IF call.idempotent THEN FALSE ELSE @,
                       !.calls[c] = [call EXCEPT !.pc = "returned", !.result = result]]
    /\ UNCHANGED <<engine, breaker>>

\* The awaited function raises an exception of class e: the call records
\* it as last_exception and re-raises it or sleeps before the next attempt.
FuncRaises(c, e) ==
    /\ retry.calls[c].pc = "func"
    /\ LET call == retry.calls[c]
           exception == [class |-> e, invocation |-> call.invocation]
           failed == [call EXCEPT !.last_exception = Some(exception),
                                  !.failures = @ + 1]
       IN IF AfterException(call.config, call.attempt, e) = "raise"
          THEN retry' = [retry EXCEPT !.calls[c] =
                            [failed EXCEPT !.pc = "raised", !.error = Some(exception)]]
          ELSE retry' = [retry EXCEPT !.calls[c] = [failed EXCEPT !.pc = "sleep"]]
    /\ UNCHANGED <<engine, breaker>>

\* asyncio.sleep(delay) is over: the next iteration invokes the function
\* again.
SleepEnds(c) ==
    /\ retry.calls[c].pc = "sleep"
    /\ retry' = [retry EXCEPT !.execution_count = @ + 1,
                              !.calls[c] = Invoke(@, retry.execution_count)]
    /\ UNCHANGED <<engine, breaker>>

\* cache_ttl seconds pass after the cached entry was written.
CacheTtlElapses ==
    /\ ~IsNone(retry.execution_cache)
    /\ ~retry.expired
    /\ retry' = [retry EXCEPT !.expired = TRUE]
    /\ UNCHANGED <<engine, breaker>>

\* -------------------------------------------------------- circuit breaker
\* CircuitBreaker.call(func) is called. An OPEN breaker whose timeout has
\* passed becomes HALF_OPEN and lets the call through, an OPEN breaker
\* whose timeout has not passed refuses it ("Circuit breaker is OPEN")
\* without invoking the function; in the other states the function is
\* invoked and awaited.
CircuitBreakerCall(c) ==
    /\ breaker.calls[c].pc = "idle"
    /\ IF breaker.state = "OPEN"
       THEN IF breaker.last_failure_time = Some("old")
            THEN breaker' = [breaker EXCEPT !.state = "HALF_OPEN",
                                            !.calls[c] = [pc |-> "func", trial |-> TRUE]]
            ELSE breaker' = [breaker EXCEPT !.calls[c].pc = "refused"]
       ELSE breaker' = [breaker EXCEPT !.calls[c].pc = "func"]
    /\ UNCHANGED <<engine, retry>>

\* The awaited function returns: a HALF_OPEN breaker closes and clears its
\* failure counter; the call returns the result.
BreakerFuncReturns(c) ==
    /\ breaker.calls[c].pc = "func"
    /\ IF breaker.state = "HALF_OPEN"
       THEN breaker' = [breaker EXCEPT !.state = "CLOSED", !.failure_count = 0,
                                       !.calls[c].pc = "returned"]
       ELSE breaker' = [breaker EXCEPT !.calls[c].pc = "returned"]
    /\ UNCHANGED <<engine, retry>>

\* The awaited function raises: the failure is counted and timed, the
\* breaker opens once the counter has reached failure_threshold, and the
\* exception is re-raised.
BreakerFuncRaises(c) ==
    /\ breaker.calls[c].pc = "func"
    /\ breaker' = [breaker EXCEPT
                      !.failure_count = @ + 1,
                      !.last_failure_time = Some("recent"),
                      !.state = IF breaker.failure_count + 1 >= FailureThreshold
                                THEN "OPEN" ELSE @,
                      !.calls[c].pc = "raised"]
    /\ UNCHANGED <<engine, retry>>

\* More than timeout seconds pass after the last failure.
TimeoutElapses ==
    /\ breaker.last_failure_time = Some("recent")
    /\ breaker' = [breaker EXCEPT !.last_failure_time = Some("old")]
    /\ UNCHANGED <<engine, retry>>

\* ------------------------------------------------------- specification
Next ==
    \/ Connect
    \/ Disconnect
    \/ FeedDrop
    \/ \E c \in 1..MaxCalls, in \in OrderInputs, token \in {None} \cup {Some(k) : k \in ClientTokens} :
          CreateOrderCall(c, in, token)
    \/ \E c \in 1..MaxCalls : CreateOrderConn(c)
    \/ \E c \in 1..MaxCalls, answer \in FeedAnswers : CreateOrderPrice(c, answer)
    \/ \E c \in 1..MaxCalls, order_id \in 1..MaxCalls : CancelOrderCall(c, order_id)
    \/ \E c \in 1..MaxCalls : CancelOrderConn(c)
    \/ \E t \in 1..MaxCalls : ProcessWake(t)
    \/ \E t \in 1..MaxCalls, answer \in FeedAnswers : ProcessPrice(t, answer)

Spec == Init /\ [][Next]_vars

\* The event loop resumes every coroutine whose await has completed: the
\* feed answers (with a price or an error) and the sleep ends.
Fairness ==
    /\ \A c \in 1..MaxCalls :
          /\ WF_vars(CreateOrderConn(c))
          /\ WF_vars(\E answer \in FeedAnswers : CreateOrderPrice(c, answer))
          /\ WF_vars(CancelOrderConn(c))
    /\ \A t \in 1..MaxCalls :
          /\ WF_vars(ProcessWake(t))
          /\ WF_vars(\E answer \in FeedAnswers : ProcessPrice(t, answer))

FairSpec == Init /\ [][Next]_vars /\ Fairness

\* The account under order creation, fills and PnL refreshes: a broker that
\* is connected and stays connected, whose caller submits orders and
\* refreshes the PnL while the fill tasks run.
RefreshNext ==
    \/ Connect
    \/ \E c \in 1..MaxCalls, in \in OrderInputs, token \in {None} \cup {Some(k) : k \in ClientTokens} :
          CreateOrderCall(c, in, token)
    \/ \E c \in 1..MaxCalls : CreateOrderConn(c)
    \/ \E c \in 1..MaxCalls, answer \in FeedAnswers : CreateOrderPrice(c, answer)
    \/ \E t \in 1..MaxCalls : ProcessWake(t)
    \/ \E t \in 1..MaxCalls, answer \in FeedAnswers : ProcessPrice(t, answer)
    \/ RefreshCall
    \/ \E answer \in FeedAnswers : RefreshPrice(answer)

RefreshSpec == Init /\ [][RefreshNext]_vars

\* ------------------------------------------- the pure functions, called directly
\* Arguments for direct calls: quotes below, at and above a threshold, and
\* order fields that are absent, non-positive or positive.
ProbePrices == {10000, 20000, 30000}
ProbeOptPrices == {None} \cup {Some(p) : p \in ProbePrices}
ProbeBadPrices == {None, Some(-1), Some(0), Some(10000)}
ProbeQuantities == {-1, 0, 1}

\* The requests _validate_order can be handed.
ProbeInputs ==
    [symbol : {"EURUSD"}, side : Sides, type : OrderTypes,
     quantity : ProbeQuantities, price : ProbeBadPrices, stop_price : ProbeBadPrices]

\* The orders _calculate_fill_price can be handed: create_order stores an
\* order only after _validate_order has accepted the request.
ProbeOrders ==
    {NewOrder(1, 1, in) :
        in \in {i \in [symbol : {"EURUSD"}, side : Sides, type : OrderTypes,
                       quantity : {1}, price : ProbeOptPrices,
                       stop_price : ProbeOptPrices] : ValidateOrder(i) = ErrNone}}

\* _validate_order(...) up to the funds pre-check, called on its own.
CallValidateOrder(in) ==
    /\ probe' = [fn |-> "_validate_order", in |-> in, result |-> ValidationFailure(in)]
    /\ UNCHANGED <<retry, breaker, connected, feedConnected, account, calls, tasks, refresh>>

\* _calculate_fill_price(order, current_price), called on its own.
CallCalculateFillPrice(order, current_price) ==
    /\ probe' = [fn |-> "_calculate_fill_price", order |-> order,
                 current_price |-> current_price,
                 result |-> CalculateFillPrice(order, current_price)]
    /\ UNCHANGED <<retry, breaker, connected, feedConnected, account, calls, tasks, refresh>>

PureNext ==
    \/ \E in \in ProbeInputs : CallValidateOrder(in)
    \/ \E order \in ProbeOrders, current_price \in ProbePrices :
          CallCalculateFillPrice(order, current_price)

PureSpec == Init /\ [][PureNext]_vars

\* ------------------------------------- the retry manager on its own
\* Callers run one operation (one execution_id, one params) through
\* execute_with_retry, sequentially or concurrently.
RetryNext ==
    \/ \E c \in 1..MaxRetryCalls, idempotent \in BOOLEAN, config \in RetryConfigs :
          ExecuteWithRetry(c, idempotent, config)
    \/ \E c \in 1..MaxRetryCalls : FuncReturns(c)
    \/ \E c \in 1..MaxRetryCalls, e \in ExceptionClasses : FuncRaises(c, e)
    \/ \E c \in 1..MaxRetryCalls : SleepEnds(c)
    \/ CacheTtlElapses

RetrySpec == Init /\ [][RetryNext]_vars

\* ----------------------------------- the circuit breaker on its own
\* Callers make calls through one CircuitBreaker while time passes.
BreakerNext ==
    \/ \E c \in 1..MaxBreakerCalls : CircuitBreakerCall(c)
    \/ \E c \in 1..MaxBreakerCalls : BreakerFuncReturns(c)
    \/ \E c \in 1..MaxBreakerCalls : BreakerFuncRaises(c)
    \/ TimeoutElapses

BreakerSpec == Init /\ [][BreakerNext]_vars

\* ----------------------------------------------------------------- claims
OrderIds == 1..Len(orders)
IsTerminal(status) == status \in {"FILLED", "REJECTED", "CANCELLED"}
CreateCalls == {c \in 1..MaxCalls : calls[c].op = "create"}
CancelCalls == {c \in 1..MaxCalls : calls[c].op = "cancel"}

\* C1: a create_order whose client token is bound, at its lookup, to an order
\* that is PENDING or SUBMITTED returns that order's id (the id an earlier call
\* with the token returned) and leaves the orders, the binding, the executions,
\* the balance, the positions and the fill tasks unchanged.
C1_DuplicateStep(c) ==
    LET call == calls[c]
        token == Val(call.token)
    IN  (/\ call.op = "create" /\ call.pc = "conn" /\ calls'[c].pc # "conn"
         /\ feedConnected
         /\ ~IsNone(call.token)
         /\ token \in DOMAIN client_orders
         /\ orders[client_orders[token]].status \in {"PENDING", "SUBMITTED"})
        => /\ calls'[c].pc = "returned"
           /\ calls'[c].result = Some(client_orders[token])
           /\ \E d \in CreateCalls \ {c} :
                 /\ calls[d].pc = "returned"
                 /\ calls[d].token = call.token
                 /\ calls[d].result = Some(client_orders[token])
           /\ UNCHANGED <<balance, orders, client_orders, executions, positions,
                          total_pnl, tasks>>

C1_Idempotent == [][\A c \in 1..MaxCalls : C1_DuplicateStep(c)]_vars

C1_Witness ==
    \E c, d \in CreateCalls :
        /\ c # d
        /\ calls[c].pc = "returned" /\ calls[d].pc = "returned"
        /\ ~IsNone(calls[c].token) /\ calls[c].token = calls[d].token
        /\ calls[c].result = calls[d].result
        /\ Len(orders) = 1 /\ Len(tasks) = 1

\* C2: in every reachable state at most one non-terminal order exists per
\* client token, however submissions with the same token interleave.
C2_AtomicLookupAndBind ==
    \A i, j \in OrderIds :
        (i # j /\ orders[i].client_id = orders[j].client_id)
        => (IsTerminal(orders[i].status) \/ IsTerminal(orders[j].status))

\* C3: once cancel_order(id) has returned true the order stays CANCELLED and
\* no execution is appended for it.
C3_CancelIsAuthoritative ==
    \A c \in CancelCalls :
        (calls[c].pc = "returned" /\ calls[c].result = Some(TRUE))
        => /\ orders[calls[c].target].status = "CANCELLED"
           /\ \A e \in 1..Len(executions) : executions[e].order_id # calls[c].target

\* C4: the balance is never negative, and the evaluation of a BUY whose
\* notional plus commission exceeds the balance rejects the order and applies
\* nothing.
C4_OverdrawingFillRejected(t) ==
    LET order == orders[tasks[t].order_id]
        fill_price == CalculateFillPrice(order, tasks'[t].current_price)
    IN  (/\ tasks[t].pc = "price" /\ tasks'[t].pc = "done"
         /\ tasks'[t].current_price # FeedFailure
         /\ order.side = "BUY"
         /\ ~IsNone(fill_price)
         /\ order.quantity * Val(fill_price) * CommissionDen
               + order.quantity * Val(fill_price) > balance)
        => /\ orders'[order.id].status = "REJECTED"
           /\ UNCHANGED <<balance, executions, positions>>

C4_BalanceNonNegative ==
    /\ [](balance >= 0)
    /\ [][\A t \in 1..Len(tasks) : C4_OverdrawingFillRejected(t)]_vars

C4_Witness ==
    \E i \in OrderIds :
        /\ orders[i].side = "BUY"
        /\ orders[i].status = "REJECTED"
        /\ orders[i].error_message = "insufficient funds at execution"
        /\ Len(executions) > 0

\* C5: the balance equals the initial balance minus, for every BUY execution,
\* quantity x price + fee, plus, for every SELL execution, quantity x price -
\* fee; it changes exactly in the steps that append an execution.
CashFlow(e) ==
    IF e.side = "BUY"
    THEN 0 - (e.quantity * e.price * CommissionDen + e.fee)
    ELSE e.quantity * e.price * CommissionDen - e.fee

RECURSIVE SumCashFlow(_)
SumCashFlow(execs) ==
    IF execs = <<>> THEN 0
    ELSE CashFlow(Head(execs)) + SumCashFlow(Tail(execs))

C5_BalanceConservation ==
    /\ [](balance = InitialBalance + SumCashFlow(executions))
    /\ [][(balance' # balance) <=> (executions' # executions)]_vars

C5_Witness ==
    /\ Len(executions) = 2
    /\ executions[1].side = "BUY"
    /\ executions[2].side = "SELL"
    /\ balance # InitialBalance

\* C6: cancel_order returns true exactly for a stored order that is not
\* FILLED, REJECTED or CANCELLED, and then only sets its status to CANCELLED;
\* otherwise it returns false and changes nothing.
C6_CancelStep(c) ==
    LET id == calls[c].target
    IN  (calls[c].op = "cancel" /\ calls[c].pc = "conn" /\ calls'[c].pc = "returned")
        => /\ UNCHANGED <<balance, client_orders, executions, positions, total_pnl, tasks>>
           /\ IF id \in OrderIds /\ ~IsTerminal(orders[id].status)
              THEN /\ calls'[c].result = Some(TRUE)
                   /\ orders' = [orders EXCEPT ![id].status = "CANCELLED"]
              ELSE /\ calls'[c].result = Some(FALSE)
                   /\ orders' = orders

C6_CancelResult == [][\A c \in 1..MaxCalls : C6_CancelStep(c)]_vars

C6_Witness ==
    \E c \in CancelCalls :
        /\ calls[c].pc = "returned"
        /\ calls[c].result = Some(FALSE)
        /\ calls[c].target \in OrderIds
        /\ orders[calls[c].target].status = "FILLED"

\* C7: once an order's status is FILLED, REJECTED or CANCELLED no step changes
\* its status, filled quantity, average price or error message.
C7_TerminalIsFinal ==
    [][\A i \in OrderIds : IsTerminal(orders[i].status) => orders'[i] = orders[i]]_vars

\* C8: after a single MARKET BUY of quantity q on a fresh account whose balance
\* covers the cost at every price the feed quotes, as long as no other call is
\* made and the feed answers the evaluation with a price, the order eventually
\* is FILLED with filled_quantity q and a positive average price, and there is
\* exactly one position (the symbol, quantity q), one order and one execution,
\* and the balance is below the initial balance.
C8_SingleMarketBuy ==
    /\ Len(orders) = 1
    /\ orders[1].type = "MARKET" /\ orders[1].side = "BUY"
    /\ orders[1].status = "PENDING"
    /\ balance = InitialBalance /\ executions = <<>>
    /\ \A p \in FeedPrices :
          orders[1].quantity * (p + p \div SlippageDen) * (CommissionDen + 1) <= balance
    /\ \A c \in 2..MaxCalls : calls[c].pc = "idle"

C8_Filled ==
    /\ Len(orders) = 1
    /\ orders[1].status = "FILLED"
    /\ orders[1].filled_quantity = orders[1].quantity
    /\ ~IsNone(orders[1].average_price) /\ Val(orders[1].average_price) > 0
    /\ DOMAIN positions = {orders[1].symbol}
    /\ positions[orders[1].symbol].quantity = orders[1].quantity
    /\ Len(executions) = 1
    /\ balance < InitialBalance

C8_Disturbed ==
    \/ \E c \in 2..MaxCalls : calls[c].pc # "idle"
    \/ (Len(tasks) >= 1 /\ tasks[1].pc = "done" /\ tasks[1].current_price = FeedFailure)

C8_MarketBuyFills == C8_SingleMarketBuy ~> (C8_Filled \/ C8_Disturbed)

C8_Witness == C8_Filled /\ \A c \in 2..MaxCalls : calls[c].pc = "idle"

\* C9: the evaluation of a BUY LIMIT order at a market price above its limit
\* appends no execution and changes neither balance nor positions, and leaves
\* an order that was PENDING in status REJECTED with an error message.
C9_LimitStep(t) ==
    LET order == orders[tasks[t].order_id]
    IN  (/\ tasks[t].pc = "price" /\ tasks'[t].pc = "done"
         /\ order.type = "LIMIT" /\ order.side = "BUY"
         /\ tasks'[t].current_price > Val(order.price))
        => /\ UNCHANGED <<balance, executions, positions>>
           /\ order.status = "PENDING"
              => /\ orders'[order.id].status = "REJECTED"
                 /\ orders'[order.id].error_message # ErrNone
                 /\ orders'[order.id].filled_quantity = 0

C9_UnfillableLimitRejected == [][\A t \in 1..Len(tasks) : C9_LimitStep(t)]_vars

C9_Witness ==
    \E t \in 1..Len(tasks) :
        LET order == orders[tasks[t].order_id]
        IN  /\ tasks[t].pc = "done"
            /\ order.type = "LIMIT" /\ order.side = "BUY"
            /\ tasks[t].current_price > Val(order.price)
            /\ order.status = "REJECTED"
            /\ executions = <<>>

\* C10: a fill that leaves the position's quantity with the same sign gives an
\* average price avg1 with avg1 x q1 = q0 x p0 + D x fill_price (D = +quantity
\* for BUY, -quantity for SELL); a first fill on a symbol sets the average
\* price to the fill price.
C10_FillStep ==
    LET e == executions'[Len(executions')]
        D == IF e.side = "BUY" THEN e.quantity ELSE 0 - e.quantity
        q0 == IF e.symbol \in DOMAIN positions THEN positions[e.symbol].quantity ELSE 0
        p0 == IF e.symbol \in DOMAIN positions
              THEN positions[e.symbol].average_price ELSE <<0, 1>>
        q1 == q0 + D
        avg1 == positions'[e.symbol].average_price
    IN  Len(executions') = Len(executions) + 1
        => /\ q0 = 0 => avg1 = <<e.price, 1>>
           /\ ((q0 > 0 /\ q1 > 0) \/ (q0 < 0 /\ q1 < 0))
              => avg1[1] * q1 * p0[2] = (q0 * p0[1] + D * e.price * p0[2]) * avg1[2]

C10_SameSignAverage == [][C10_FillStep]_vars

\* C11: a fill that flips a position's direction (the old quantity q0 and the
\* new quantity q1 = q0 + D have opposite signs) leaves a position of
\* quantity q1 whose average price is the fill price, and the realized PnL
\* reported by get_account_summary grows by (fill_price - p0) x q0.
C11_FlipStep ==
    Len(executions') = Len(executions) + 1
    => LET e == executions'[Len(executions')]
           D == IF e.side = "BUY" THEN e.quantity ELSE -e.quantity
       IN e.symbol \in DOMAIN positions
          => LET q0 == positions[e.symbol].quantity
                 p0 == positions[e.symbol].average_price
                 q1 == q0 + D
             IN q0 * q1 < 0
                => /\ e.symbol \in DOMAIN positions'
                   /\ positions'[e.symbol].quantity = q1
                   /\ positions'[e.symbol].average_price = RatOfInt(e.price)
                   /\ (GetAccountSummary.realized_pnl)' * p0[2]
                        = GetAccountSummary.realized_pnl * p0[2]
                          + (e.price * p0[2] - p0[1]) * q0 * CommissionDen

C11_FlipBooksRealizedPnl == [][C11_FlipStep]_vars

\* C12: a fill that brings a position's quantity to exactly zero removes the
\* position, and the realized PnL reported by get_account_summary grows by
\* (fill_price - p0) x q0.
C12_CloseStep ==
    Len(executions') = Len(executions) + 1
    => LET e == executions'[Len(executions')]
           D == IF e.side = "BUY" THEN e.quantity ELSE -e.quantity
       IN e.symbol \in DOMAIN positions
          => LET q0 == positions[e.symbol].quantity
                 p0 == positions[e.symbol].average_price
             IN q0 + D = 0
                => /\ e.symbol \notin DOMAIN positions'
                   /\ (GetAccountSummary.realized_pnl)' * p0[2]
                        = GetAccountSummary.realized_pnl * p0[2]
                          + (e.price * p0[2] - p0[1]) * q0 * CommissionDen

C12_CloseBooksRealizedPnl == [][C12_CloseStep]_vars

\* C13: between operations the position map has at most one position per
\* symbol and none of quantity 0: a symbol has a position exactly when the
\* fills executed for it do not net to zero, so the position appears with the
\* first fill and is gone as soon as the quantity is back at zero.
SignedQuantity(e) == IF e.side = "BUY" THEN e.quantity ELSE -e.quantity

RECURSIVE NetQuantity(_, _)
NetQuantity(execs, symbol) ==
    IF execs = <<>> THEN 0
    ELSE (IF Head(execs).symbol = symbol THEN SignedQuantity(Head(execs)) ELSE 0)
         + NetQuantity(Tail(execs), symbol)

C13_NoEmptyPosition ==
    /\ DOMAIN positions \subseteq Symbols
    /\ \A s \in DOMAIN positions : positions[s].quantity # 0
    /\ \A s \in Symbols : s \in DOMAIN positions <=> NetQuantity(executions, s) # 0

C13_Witness ==
    /\ Len(executions) = 2
    /\ executions[1].symbol = "EURUSD"
    /\ executions[2].symbol = "EURUSD"
    /\ "EURUSD" \notin DOMAIN positions

\* What a direct call of _calculate_fill_price was given and returned.
FillPriceProbed == probe.fn = "_calculate_fill_price"

\* C14: a MARKET order is always fillable; its fill price is the current
\* price plus current price x slippage rate for a BUY and minus it for a SELL,
\* so a BUY never fills below and a SELL never above the observed price.
C14_MarketFillPrice ==
    (FillPriceProbed /\ probe.order.type = "MARKET")
    => /\ ~IsNone(probe.result)
       /\ probe.order.side = "BUY"
            => /\ Val(probe.result) * SlippageDen
                    = probe.current_price * SlippageDen + probe.current_price
               /\ Val(probe.result) >= probe.current_price
       /\ probe.order.side = "SELL"
            => /\ Val(probe.result) * SlippageDen
                    = probe.current_price * SlippageDen - probe.current_price
               /\ Val(probe.result) <= probe.current_price

C14_Witness ==
    /\ FillPriceProbed
    /\ probe.order.type = "MARKET"
    /\ probe.order.side = "SELL"
    /\ probe.current_price = 20000
    /\ probe.result = Some(19998)

\* C15: a LIMIT order is fillable exactly when the current price is at or
\* below the limit (BUY) or at or above it (SELL); when fillable the fill
\* price is the limit price, without slippage; otherwise it is not fillable.
C15_LimitFillPrice ==
    (FillPriceProbed /\ probe.order.type = "LIMIT")
    => LET limit == Val(probe.order.price)
           fillable == \/ probe.order.side = "BUY" /\ probe.current_price <= limit
                       \/ probe.order.side = "SELL" /\ probe.current_price >= limit
       IN IF fillable THEN probe.result = Some(limit) ELSE IsNone(probe.result)

C15_Witness ==
    /\ FillPriceProbed
    /\ probe.order.type = "LIMIT"
    /\ probe.order.side = "SELL"
    /\ probe.current_price = Val(probe.order.price)
    /\ probe.result = probe.order.price

\* C16: a STOP order is fillable exactly when the current price is at or
\* above the stop price (BUY) or at or below it (SELL); when fillable it fills
\* as a MARKET order would at that price, current price plus slippage for a
\* BUY and minus slippage for a SELL; otherwise it is not fillable.
C16_StopFillPrice ==
    (FillPriceProbed /\ probe.order.type = "STOP")
    => LET stop == Val(probe.order.stop_price)
           fillable == \/ probe.order.side = "BUY" /\ probe.current_price >= stop
                       \/ probe.order.side = "SELL" /\ probe.current_price <= stop
           market == [probe.order EXCEPT !.type = "MARKET"]
       IN IF fillable
          THEN /\ ~IsNone(probe.result)
               /\ Val(probe.result) * SlippageDen
                    = probe.current_price * SlippageDen
                      + (IF probe.order.side = "BUY" THEN 1 ELSE -1) * probe.current_price
               /\ probe.result = CalculateFillPrice(market, probe.current_price)
          ELSE IsNone(probe.result)

C16_Witness ==
    /\ FillPriceProbed
    /\ probe.order.type = "STOP"
    /\ probe.order.side = "BUY"
    /\ probe.current_price = Val(probe.order.stop_price)
    /\ probe.result = Some(probe.current_price + probe.current_price \div SlippageDen)

\* C17: a STOP_LIMIT order is fillable exactly when the stop is crossed
\* (current >= stop for a BUY, current <= stop for a SELL) and the current
\* price respects the limit (current <= limit for a BUY, current >= limit for
\* a SELL); when fillable the fill price is the limit price; in every other
\* case it is not fillable.
C17_StopLimitFillPrice ==
    (FillPriceProbed /\ probe.order.type = "STOP_LIMIT")
    => LET stop == Val(probe.order.stop_price)
           limit == Val(probe.order.price)
           fillable ==
              \/ /\ probe.order.side = "BUY"
                 /\ probe.current_price >= stop
                 /\ probe.current_price <= limit
              \/ /\ probe.order.side = "SELL"
                 /\ probe.current_price <= stop
                 /\ probe.current_price >= limit
       IN IF fillable THEN probe.result = Some(limit) ELSE IsNone(probe.result)

C17_Witness ==
    /\ FillPriceProbed
    /\ probe.order.type = "STOP_LIMIT"
    /\ probe.order.side = "BUY"
    /\ Val(probe.order.stop_price) = 10000
    /\ probe.current_price = 20000
    /\ probe.result = Some(30000)

\* C18: validation checks (1) a non-positive quantity, (2) for LIMIT and
\* STOP_LIMIT a missing or non-positive limit price, (3) for STOP and
\* STOP_LIMIT a missing or non-positive stop price, in this order, and reports
\* the first failure; a request that passes the three rules is not rejected.
C18_FirstFailure(in) ==
    IF in.quantity <= 0 THEN "quantity"
    ELSE IF in.type \in {"LIMIT", "STOP_LIMIT"}
            /\ (IsNone(in.price) \/ Val(in.price) <= 0) THEN "limit price"
    ELSE IF in.type \in {"STOP", "STOP_LIMIT"}
            /\ (IsNone(in.stop_price) \/ Val(in.stop_price) <= 0) THEN "stop price"
    ELSE "accepted"

C18_Reported(message) ==
    IF message = "quantity must be positive" THEN "quantity"
    ELSE IF message \in {"price is required for limit orders", "price must be positive"}
    THEN "limit price"
    ELSE IF message \in {"stop price is required for stop orders",
                         "stop price must be positive"}
    THEN "stop price"
    ELSE "accepted"

C18_RulesInOrder ==
    probe.fn = "_validate_order"
    => C18_Reported(probe.result) = C18_FirstFailure(probe.in)

\* C19: a create_order that fails with InvalidOrder or InsufficientFunds
\* persists nothing: the step that raises stores no order, binds no token,
\* schedules no fill task and leaves balance, positions and executions
\* alone, and no order or binding carries the client id generated for it.
C19_FailedSynchronously(call) ==
    /\ call.op = "create"
    /\ call.pc = "raised"
    /\ call.error \in {"InvalidOrderError", "InsufficientFundsError"}

C19_RaiseStep(c) ==
    (calls[c].pc # "raised" /\ C19_FailedSynchronously(calls'[c]))
    => UNCHANGED <<orders, client_orders, tasks, balance, positions, executions>>

C19_NoTrace(c) ==
    (C19_FailedSynchronously(calls[c]) /\ IsNone(calls[c].token))
    => /\ calls[c].client_id \notin DOMAIN client_orders
       /\ \A i \in OrderIds : orders[i].client_id # calls[c].client_id

C19_FailureStoresNothing ==
    /\ [](\A c \in 1..MaxCalls : C19_NoTrace(c))
    /\ [][\A c \in 1..MaxCalls : C19_RaiseStep(c)]_vars

C19_Witness ==
    /\ \E c \in 1..MaxCalls :
          C19_FailedSynchronously(calls[c]) /\ calls[c].error = "InvalidOrderError"
    /\ \E c \in 1..MaxCalls :
          C19_FailedSynchronously(calls[c]) /\ calls[c].error = "InsufficientFundsError"
    /\ orders = <<>>
    /\ tasks = <<>>

\* C20: the funds pre-check of create_order raises InsufficientFunds for a
\* MARKET order exactly when the order is a BUY and quantity x current price
\* exceeds the balance; no SELL order and no LIMIT, STOP or STOP_LIMIT order
\* ever fails with InsufficientFunds at submission.
C20_CheckStep(c) ==
    (/\ calls[c].op = "create"
     /\ calls[c].pc = "price"
     /\ calls'[c].pc # "price"
     /\ calls'[c].current_price # FeedFailure)
    => LET in == Val(calls[c].in)
           exceeds == in.quantity * calls'[c].current_price * CommissionDen > balance
       IN (calls'[c].pc = "raised" /\ calls'[c].error = "InsufficientFundsError")
          <=> (in.side = "BUY" /\ exceeds)

C20_OnlyMarketBuy(c) ==
    (calls[c].op = "create" /\ calls[c].error = "InsufficientFundsError")
    => Val(calls[c].in).type = "MARKET" /\ Val(calls[c].in).side = "BUY"

C20_FundsPreCheck ==
    /\ [](\A c \in 1..MaxCalls : C20_OnlyMarketBuy(c))
    /\ [][\A c \in 1..MaxCalls : C20_CheckStep(c)]_vars

C20_Witness ==
    \E c \in 1..MaxCalls :
        /\ calls[c].op = "create"
        /\ calls[c].error = "InsufficientFundsError"
        /\ Val(calls[c].in).quantity = 2
        /\ calls[c].current_price = 20000
        /\ balance < 2 * 20000 * CommissionDen

\* C21: when, at fill time, a BUY's notional plus commission exceeds the
\* balance, the order becomes REJECTED with an error message and the fill is
\* not applied: balance, positions, executions and the order's filled
\* quantity and average price are unchanged.
C21_ShortfallStep(t) ==
    LET order == orders[tasks[t].order_id]
        fill_price == CalculateFillPrice(order, tasks'[t].current_price)
    IN  (/\ tasks[t].pc = "price" /\ tasks'[t].pc = "done"
         /\ tasks'[t].current_price # FeedFailure
         /\ order.side = "BUY"
         /\ ~IsNone(fill_price)
         /\ order.quantity * Val(fill_price) * (CommissionDen + 1) > balance)
        => /\ orders'[order.id].status = "REJECTED"
           /\ orders'[order.id].error_message # ErrNone
           /\ orders'[order.id].filled_quantity = order.filled_quantity
           /\ orders'[order.id].average_price = order.average_price
           /\ \A i \in OrderIds \ {order.id} : orders'[i] = orders[i]
           /\ UNCHANGED <<balance, executions, positions, total_pnl>>

C21_ShortfallRejectsFill == [][\A t \in 1..Len(tasks) : C21_ShortfallStep(t)]_vars

C21_Witness ==
    \E t \in 1..Len(tasks) :
        LET order == orders[tasks[t].order_id]
        IN  /\ tasks[t].pc = "done"
            /\ tasks[t].current_price = 20000
            /\ order.type = "MARKET" /\ order.side = "BUY"
            /\ order.status = "REJECTED"
            /\ order.filled_quantity = 0
            /\ balance < order.quantity * 20002 * (CommissionDen + 1)
            /\ Len(executions) = 1

\* C22: a successful fill sets the order's status to FILLED, its
\* filled_quantity to the requested quantity and its average_price to the
\* fill price, appends exactly one Execution with the order's id, symbol, side
\* and quantity, the fill price and fee = quantity x fill price x commission
\* rate, debits notional + fee for a BUY or credits notional - fee for a SELL,
\* and moves the symbol's position by the signed quantity.
C22_FillStep(t) ==
    LET order == orders[tasks[t].order_id]
        answer == tasks'[t].current_price
        fill_price == CalculateFillPrice(order, answer)
        fp == Val(fill_price)
        notional == order.quantity * fp * CommissionDen
        e == executions'[Len(executions')]
        old == IF order.symbol \in DOMAIN positions
               THEN positions[order.symbol].quantity ELSE 0
        new == old + (IF order.side = "BUY" THEN order.quantity ELSE -order.quantity)
    IN  (/\ tasks[t].pc = "price" /\ tasks'[t].pc = "done"
         /\ answer # FeedFailure
         /\ ~IsNone(fill_price)
         /\ order.side = "BUY" => notional + order.quantity * fp <= balance)
        => /\ orders'[order.id].status = "FILLED"
           /\ orders'[order.id].filled_quantity = order.quantity
           /\ orders'[order.id].average_price = Some(fp)
           /\ Len(executions') = Len(executions) + 1
           /\ SubSeq(executions', 1, Len(executions)) = executions
           /\ e.order_id = order.id
           /\ e.symbol = order.symbol
           /\ e.side = order.side
           /\ e.quantity = order.quantity
           /\ e.price = fp
           /\ e.fee * CommissionDen = notional
           /\ order.side = "BUY" => balance' = balance - (notional + e.fee)
           /\ order.side = "SELL" => balance' = balance + (notional - e.fee)
           /\ IF new = 0 THEN order.symbol \notin DOMAIN positions'
              ELSE /\ order.symbol \in DOMAIN positions'
                   /\ positions'[order.symbol].quantity = new

C22_FillRecorded == [][\A t \in 1..Len(tasks) : C22_FillStep(t)]_vars

C22_Witness ==
    \E i \in OrderIds :
        /\ orders[i].side = "SELL"
        /\ orders[i].status = "FILLED"
        /\ orders[i].filled_quantity = 2
        /\ orders[i].average_price = Some(19998)
        /\ Len(executions) = 1
        /\ executions[1].order_id = i
        /\ executions[1].fee = 2 * 19998
        /\ positions["EURUSD"].quantity = -2

\* C23: the quantities of an order's executions never sum to more than its
\* requested quantity (an order has at most one execution, however its fill
\* task, cancels and duplicate submissions interleave), and the execution log
\* is append-only: no step modifies, removes or reorders an execution.
RECURSIVE ExecutedQuantity(_, _)
ExecutedQuantity(execs, order_id) ==
    IF execs = <<>> THEN 0
    ELSE (IF Head(execs).order_id = order_id THEN Head(execs).quantity ELSE 0)
         + ExecutedQuantity(Tail(execs), order_id)

C23_AtMostOneExecution ==
    \A i \in OrderIds :
        /\ ExecutedQuantity(executions, i) <= orders[i].quantity
        /\ Cardinality({k \in 1..Len(executions) : executions[k].order_id = i}) <= 1

C23_ExecutionsAppendOnly ==
    /\ [](C23_AtMostOneExecution)
    /\ [][/\ Len(executions') >= Len(executions)
           /\ SubSeq(executions', 1, Len(executions)) = executions]_vars

C23_Witness ==
    /\ Len(executions) = 1
    /\ tasks[executions[1].order_id].pc = "done"
    /\ \E c \in CancelCalls :
          /\ calls[c].pc = "returned"
          /\ calls[c].target = executions[1].order_id

\* C24: every stored order has 0 <= filled_quantity <= quantity, and an
\* average_price only when filled_quantity > 0; an order that is PENDING,
\* CANCELLED or REJECTED has filled_quantity 0 and no average price.
C24_FilledQuantityBounds ==
    \A i \in OrderIds :
        /\ 0 <= orders[i].filled_quantity
        /\ orders[i].filled_quantity <= orders[i].quantity
        /\ ~IsNone(orders[i].average_price) => orders[i].filled_quantity > 0
        /\ orders[i].status \in {"PENDING", "CANCELLED", "REJECTED"}
              => /\ orders[i].filled_quantity = 0
                 /\ IsNone(orders[i].average_price)

C24_Witness ==
    /\ \E i \in OrderIds :
          /\ orders[i].status = "FILLED"
          /\ orders[i].filled_quantity = orders[i].quantity
          /\ ~IsNone(orders[i].average_price)
    /\ \E i \in OrderIds :
          /\ orders[i].status = "REJECTED"
          /\ orders[i].filled_quantity = 0

\* C25: when the price feed fails at an order's fill evaluation, the
\* evaluation is deferred or retried: the order is not marked REJECTED, it
\* keeps its status and its fill task is not over.
C25_FeedFailureStep(t) ==
    (/\ tasks[t].pc = "price"
     /\ tasks'[t] # tasks[t]
     /\ tasks'[t].current_price = FeedFailure)
    => /\ orders'[tasks[t].order_id].status = orders[tasks[t].order_id].status
       /\ tasks'[t].pc # "done"

C25_FeedFailureDeferred == [][\A t \in 1..Len(tasks) : C25_FeedFailureStep(t)]_vars

\* C26: a failure in an order's fill path stays inside its fill task: the
\* step that fails marks that order REJECTED with an error_message and
\* touches no API call, no other fill task and no other order, and an
\* evaluation that ends without an execution always leaves its order
\* REJECTED with an error_message.
C26_EvaluationStep(t) ==
    LET id == tasks[t].order_id
    IN  (tasks[t].pc = "price" /\ tasks'[t].pc = "done")
        => /\ calls' = calls
           /\ \A u \in (1..Len(tasks)) \ {t} : tasks'[u] = tasks[u]
           /\ \A i \in OrderIds \ {id} : orders'[i] = orders[i]
           /\ UNCHANGED <<connected, feedConnected, client_orders>>
           /\ executions' = executions
                => /\ orders'[id].status = "REJECTED"
                   /\ orders'[id].error_message # ErrNone
                   /\ UNCHANGED <<balance, positions>>
           /\ tasks'[t].current_price = FeedFailure => executions' = executions

C26_TaskOutcome(t) ==
    tasks[t].pc = "done"
    => /\ orders[tasks[t].order_id].status \in {"FILLED", "REJECTED"}
       /\ orders[tasks[t].order_id].status = "REJECTED"
            => orders[tasks[t].order_id].error_message # ErrNone

C26_FailureStaysInTask ==
    /\ [](\A t \in 1..Len(tasks) : C26_TaskOutcome(t))
    /\ [][\A t \in 1..Len(tasks) : C26_EvaluationStep(t)]_vars

C26_Witness ==
    /\ Len(tasks) = 2
    /\ tasks[1].pc = "done"
    /\ tasks[1].current_price = FeedFailure
    /\ orders[1].status = "REJECTED"
    /\ tasks[2].pc = "done"
    /\ orders[2].status = "FILLED"

\* C28: create_order returns a new order id without waiting for the fill:
\* in the step that returns it, the order is stored under that id with status
\* PENDING, filled_quantity 0, no average price and exactly the submitted
\* symbol, side, type, quantity, price, stop price and client token, it has no
\* execution, and balance, positions and executions are unchanged.
C28_ReturnStep(c) ==
    (/\ calls[c].op = "create"
     /\ calls[c].pc \in {"conn", "price"}
     /\ calls'[c].pc = "returned"
     /\ Len(orders') = Len(orders) + 1)
    => LET id == Val(calls'[c].result)
           in == Val(calls[c].in)
       IN /\ id = Len(orders')
          /\ \A i \in OrderIds : orders'[i] = orders[i]
          /\ orders'[id].id = id
          /\ orders'[id].status = "PENDING"
          /\ orders'[id].filled_quantity = 0
          /\ IsNone(orders'[id].average_price)
          /\ orders'[id].symbol = in.symbol
          /\ orders'[id].side = in.side
          /\ orders'[id].type = in.type
          /\ orders'[id].quantity = in.quantity
          /\ orders'[id].price = in.price
          /\ orders'[id].stop_price = in.stop_price
          /\ ~IsNone(calls[c].token) => orders'[id].client_id = Val(calls[c].token)
          /\ \A k \in 1..Len(executions') : executions'[k].order_id # id
          /\ tasks'[id].pc = "sleep"
          /\ UNCHANGED <<balance, positions, executions>>

C28_ReturnsBeforeFill == [][\A c \in 1..MaxCalls : C28_ReturnStep(c)]_vars

C28_Witness ==
    \E c \in CreateCalls :
        /\ calls[c].pc = "returned"
        /\ ~IsNone(calls[c].token)
        /\ Val(calls[c].in).type = "LIMIT"
        /\ orders[Val(calls[c].result)].status = "PENDING"
        /\ orders[Val(calls[c].result)].price = Some(15000)
        /\ orders[Val(calls[c].result)].client_id = Val(calls[c].token)
        /\ tasks[Val(calls[c].result)].pc = "sleep"

\* C29: the connectivity check of create_order and cancel_order is
\* self.connected (connect called, disconnect not called since) and the
\* feed's own answer; a call whose check is false fails with BrokerError and
\* leaves orders, bindings, balance, positions, executions and fill tasks
\* unchanged, and a BrokerError is raised in no other case.
C29_CheckStep(c) ==
    /\ (calls[c].pc = "idle" /\ calls'[c].pc # "idle")
       => /\ ~connected => /\ calls'[c].pc = "raised"
                           /\ calls'[c].error = "BrokerError"
          /\ connected => calls'[c].pc = "conn"
          /\ UNCHANGED <<account, tasks>>
    /\ (calls[c].pc = "conn" /\ calls'[c].pc # "conn")
       => /\ ~feedConnected => /\ calls'[c].pc = "raised"
                               /\ calls'[c].error = "BrokerError"
                               /\ UNCHANGED <<account, tasks>>
          /\ feedConnected => calls'[c].error # "BrokerError"
    /\ (calls[c].pc = "price") => calls'[c].error # "BrokerError"

C29_FlagStep ==
    /\ (connected' /\ ~connected) => feedConnected'
    /\ (connected' # connected) => UNCHANGED <<account, calls, tasks>>

C29_DisconnectedCallsFail ==
    [][C29_FlagStep /\ \A c \in 1..MaxCalls : C29_CheckStep(c)]_vars

C29_Witness ==
    /\ \E c \in CreateCalls :
          /\ calls[c].pc = "raised"
          /\ calls[c].error = "BrokerError"
    /\ \E c \in CancelCalls :
          /\ calls[c].pc = "raised"
          /\ calls[c].error = "BrokerError"
          /\ calls[c].target = 1
    /\ orders = <<>>
    /\ connected

\* C30: fills never lose an update: in every state the balance and the
\* position map are those obtained by applying the logged fills one after
\* another, in log order, to the initial account.
RECURSIVE SequentialPositions(_)
SequentialPositions(execs) ==
    IF execs = <<>> THEN <<>>
    ELSE LET e == execs[Len(execs)]
         IN UpdatePosition(SequentialPositions(SubSeq(execs, 1, Len(execs) - 1)),
                           e.symbol, e.side, e.quantity, e.price)

RECURSIVE SequentialBalance(_)
SequentialBalance(execs) ==
    IF execs = <<>> THEN InitialBalance
    ELSE LET e == execs[Len(execs)]
             before == SequentialBalance(SubSeq(execs, 1, Len(execs) - 1))
         IN IF e.side = "BUY"
            THEN before - (e.quantity * e.price * CommissionDen + e.fee)
            ELSE before + (e.quantity * e.price * CommissionDen - e.fee)

C30_FillsSerialized ==
    /\ positions = SequentialPositions(executions)
    /\ balance = SequentialBalance(executions)
    /\ \A k \in 1..Len(executions) :
          /\ executions[k].id = k
          /\ orders[executions[k].order_id].status = "FILLED"

C30_Witness ==
    /\ Len(executions) = 2
    /\ executions[1].symbol = "EURUSD"
    /\ executions[2].symbol = "GBPUSD"
    /\ executions[1].order_id = 2
    /\ DOMAIN positions = {"EURUSD", "GBPUSD"}

\* C27: a PnL refresh writes, for the position whose price the feed has just
\* answered, unrealized_pnl = (current_price - average_price) x quantity when
\* it is long and (average_price - current_price) x |quantity| when it is
\* short, and changes nothing else: balance, realized PnL, orders, bindings,
\* executions, the set of positions and every position's quantity, average
\* price and realized PnL are unchanged.
C27_Expected(position, current_price) ==
    IF position.quantity > 0
    THEN (current_price * position.average_price[2] - position.average_price[1])
            * position.quantity * CommissionDen
    ELSE (position.average_price[1] - current_price * position.average_price[2])
            * (0 - position.quantity) * CommissionDen

C27_RefreshStep ==
    (refresh' # refresh)
    => /\ UNCHANGED <<balance, total_pnl, orders, client_orders, executions, calls, tasks>>
       /\ DOMAIN positions' = DOMAIN positions
       /\ \A s \in DOMAIN positions :
             /\ positions'[s].quantity = positions[s].quantity
             /\ positions'[s].average_price = positions[s].average_price
             /\ positions'[s].realized_pnl = positions[s].realized_pnl
             /\ IF /\ refresh.pc = "price"
                   /\ refresh'.current_price # FeedFailure
                   /\ DictEntries(executions)[refresh.entry].live
                   /\ DictEntries(executions)[refresh.entry].symbol = s
                THEN positions'[s].unrealized_pnl[1] * positions[s].average_price[2]
                       = C27_Expected(positions[s], refresh'.current_price)
                         * positions'[s].unrealized_pnl[2]
                ELSE positions'[s].unrealized_pnl = positions[s].unrealized_pnl

C27_RefreshOnlyUnrealized == [][C27_RefreshStep]_vars

C27_Witness ==
    /\ refresh.pc = "returned"
    /\ refresh.current_price = 10000
    /\ "EURUSD" \in DOMAIN positions
    /\ positions["EURUSD"].quantity = -2
    /\ positions["EURUSD"].average_price = RatOfInt(19998)
    /\ positions["EURUSD"].unrealized_pnl = RatOfInt(19996000)

\* C31: create_order validates before it looks the client token up: a
\* submission that violates a validation rule fails with InvalidOrder, also
\* when its token is bound to a PENDING order.
C31_InvalidStep(c) ==
    (/\ calls[c].op = "create" /\ calls[c].pc = "conn" /\ calls'[c].pc # "conn"
     /\ feedConnected
     /\ ValidationFailure(Val(calls[c].in)) # ErrNone)
    => /\ calls'[c].pc = "raised"
       /\ calls'[c].error = "InvalidOrderError"

C31_ValidationBeforeLookup == [][\A c \in 1..MaxCalls : C31_InvalidStep(c)]_vars

\* C32: a client token blocks resubmission only while its bound order is
\* non-terminal: a valid create_order whose token is bound to a FILLED,
\* REJECTED or CANCELLED order does not return that order's id, and when it
\* stores its order the order is a second, distinct one, the token is rebound
\* to it, a fill task is scheduled for it and the stored orders are unchanged.
C32_LookupStep(c) ==
    LET call == calls[c]
        token == Val(call.token)
    IN  (/\ call.op = "create" /\ call.pc = "conn" /\ calls'[c].pc # "conn"
         /\ feedConnected
         /\ ~IsNone(call.token)
         /\ token \in DOMAIN client_orders
         /\ orders[client_orders[token]].status \in {"FILLED", "REJECTED", "CANCELLED"}
         /\ ValidationFailure(Val(call.in)) = ErrNone)
        => \/ calls'[c].pc = "price" /\ UNCHANGED <<account, tasks>>
           \/ /\ calls'[c].pc = "returned"
              /\ calls'[c].result = Some(Len(orders) + 1)

C32_StoreStep(c) ==
    LET call == calls[c]
        token == Val(call.token)
        id == Len(orders) + 1
    IN  (/\ call.op = "create" /\ ~IsNone(call.token)
         /\ token \in DOMAIN client_orders
         /\ Len(orders') = id)
        => /\ client_orders[token] # id
           /\ client_orders' = [client_orders EXCEPT ![token] = id]
           /\ orders'[id].client_id = token
           /\ orders'[id].status = "PENDING"
           /\ \A i \in OrderIds : orders'[i] = orders[i]
           /\ Len(tasks') = Len(tasks) + 1
           /\ tasks'[Len(tasks')] = [order_id |-> id, pc |-> "sleep", current_price |-> 0]

C32_StoringCall(c) ==
    calls[c].pc \in {"conn", "price"} /\ calls'[c].pc = "returned"

C32_TerminalTokenReusable ==
    [][\A c \in 1..MaxCalls :
          /\ C32_LookupStep(c)
          /\ C32_StoringCall(c) => C32_StoreStep(c)]_vars

C32_Witness ==
    /\ Len(orders) = 2
    /\ orders[1].client_id = 1
    /\ orders[2].client_id = 1
    /\ orders[1].status = "FILLED"
    /\ tasks[1].pc = "done"
    /\ orders[2].status = "PENDING"
    /\ orders[2].type = "LIMIT"
    /\ tasks[2].pc = "sleep"
    /\ client_orders[1] = 2

\* C33: every stored order eventually reaches a terminal status (FILLED,
\* REJECTED or CANCELLED) under fair scheduling of the fill tasks, whatever
\* the feed answers and however other orders, cancels and duplicate
\* submissions interleave, and each stored order has exactly one fill task.
C33_OneTaskPerOrder ==
    /\ Len(tasks) = Len(orders)
    /\ \A i \in OrderIds : tasks[i].order_id = i /\ orders[i].id = i

C33_Stored(i) == Len(orders) >= i

C33_Terminal(i) == Len(orders) >= i /\ IsTerminal(orders[i].status)

C33_EveryOrderTerminates ==
    /\ []C33_OneTaskPerOrder
    /\ \A i \in 1..MaxCalls : C33_Stored(i) ~> C33_Terminal(i)

C33_Witness ==
    /\ Len(orders) = 2
    /\ orders[1].client_id = orders[2].client_id
    /\ tasks[1].pc = "done" /\ tasks[2].pc = "done"
    /\ orders[1].status = "FILLED"
    /\ orders[2].status = "REJECTED"

\* C38: the execution log and the FILLED orders correspond one to one: each
\* execution names a stored order that is FILLED, has the execution's symbol,
\* side and quantity and the execution's price as its average_price, and each
\* FILLED order has exactly one execution; so get_account_summary's
\* executions_count is the number of FILLED orders and its orders_count and
\* positions_count are the sizes of the order and position maps.
C38_ExecutionsOf(i) == {k \in 1..Len(executions) : executions[k].order_id = i}

C38_FilledOrders == {i \in OrderIds : orders[i].status = "FILLED"}

C38_ExecutionsMatchFilledOrders ==
    /\ \A k \in 1..Len(executions) :
          LET e == executions[k]
          IN /\ e.order_id \in OrderIds
             /\ orders[e.order_id].status = "FILLED"
             /\ orders[e.order_id].symbol = e.symbol
             /\ orders[e.order_id].side = e.side
             /\ orders[e.order_id].quantity = e.quantity
             /\ orders[e.order_id].average_price = Some(e.price)
    /\ \A i \in C38_FilledOrders : Cardinality(C38_ExecutionsOf(i)) = 1
    /\ GetAccountSummary.executions_count = Cardinality(C38_FilledOrders)
    /\ GetAccountSummary.orders_count = Cardinality(OrderIds)
    /\ GetAccountSummary.positions_count = Cardinality(DOMAIN positions)

C38_Witness ==
    /\ Len(executions) = 1
    /\ Len(orders) = 2
    /\ C38_FilledOrders = {2}
    /\ orders[1].status = "REJECTED"
    /\ GetAccountSummary.executions_count = 1
    /\ GetAccountSummary.orders_count = 2

\* C39: for each symbol the position's signed quantity is the sum of the
\* symbol's BUY execution quantities minus the sum of its SELL execution
\* quantities, and the symbol is in the position map exactly when that net
\* sum is not zero; a MARKET SELL evaluated at a price is filled whatever
\* the holdings are, opening a short position when there is none.
RECURSIVE C39_SideQuantity(_, _, _)
C39_SideQuantity(execs, symbol, side) ==
    IF execs = <<>> THEN 0
    ELSE (IF Head(execs).symbol = symbol /\ Head(execs).side = side
          THEN Head(execs).quantity ELSE 0)
         + C39_SideQuantity(Tail(execs), symbol, side)

C39_Net(symbol) ==
    C39_SideQuantity(executions, symbol, "BUY")
    - C39_SideQuantity(executions, symbol, "SELL")

C39_PositionIsNetOfFills ==
    /\ \A s \in Symbols :
          IF C39_Net(s) = 0 THEN s \notin DOMAIN positions
          ELSE s \in DOMAIN positions /\ positions[s].quantity = C39_Net(s)
    /\ \A t \in 1..Len(tasks) :
          (/\ tasks[t].pc = "done"
           /\ tasks[t].current_price # FeedFailure
           /\ orders[tasks[t].order_id].type = "MARKET"
           /\ orders[tasks[t].order_id].side = "SELL")
          => orders[tasks[t].order_id].status = "FILLED"

C39_Witness ==
    /\ Len(executions) = 1
    /\ executions[1].side = "SELL"
    /\ "EURUSD" \in DOMAIN positions
    /\ positions["EURUSD"].quantity = -2
    /\ C39_Net("EURUSD") = -2

\* C40: a PnL sweep (update_positions_pnl) never raises, also when fills that
\* open or close positions run while it awaits a price, and a failing price
\* lookup for one symbol does not keep the sweep from going on to the
\* remaining open positions.
C40_FailedLookupStep ==
    (/\ refresh.pc = "price"
     /\ refresh' # refresh
     /\ refresh'.current_price = FeedFailure
     /\ refresh.used = Cardinality(DOMAIN positions)
     /\ refresh.len > 0)
    => refresh'.pc = "price" /\ refresh'.entry > refresh.entry

C40_SweepNeverRaises ==
    /\ [](refresh.pc # "raised")
    /\ [][C40_FailedLookupStep]_vars

\* C34 (as stated): while every call made so far is idempotent, the function
\* has never raised and no cache entry has been dropped for its age, the
\* function has been invoked at most once for the operation, and the calls
\* that returned all returned the same result.
C34_Made == {c \in 1..MaxRetryCalls : retry.calls[c].pc # "idle"}

C34_Returned == {c \in 1..MaxRetryCalls : retry.calls[c].pc = "returned"}

C34_InvokedOnce ==
    (/\ \A c \in C34_Made :
           /\ retry.calls[c].idempotent
           /\ retry.calls[c].pc # "raised"
           /\ IsNone(retry.calls[c].last_exception)
     /\ ~retry.evicted)
    => /\ retry.execution_count <= 1
       /\ \A c, d \in C34_Returned : retry.calls[c].result = retry.calls[d].result

\* C35: a call of execute_with_retry never invokes the function more than
\* max_attempts times; a call that returned a result of its own returned
\* the result of its last invocation, after fewer than max_attempts failures
\* and exactly one invocation more than failures; a call that has seen
\* max_attempts failures has raised the exception of its last invocation; an
\* exception listed in stop_on_exceptions or not covered by
\* retry_on_exceptions is re-raised at once, with no further invocation; and
\* a call raises in no other case (but for the TypeError of max_attempts = 0).
C35_Ends(config, e) ==
    e \in config.stop_on_exceptions \/ e \notin config.retry_on_exceptions

C35_Call(call) ==
    /\ call.invoked <= call.config.max_attempts
    /\ (call.pc = "returned" /\ call.invoked > 0)
        => /\ call.result = Some(call.invocation)
           /\ call.failures < call.config.max_attempts
           /\ call.invoked = call.failures + 1
    /\ (call.failures = call.config.max_attempts /\ call.failures > 0)
        => /\ call.pc = "raised"
           /\ call.error = call.last_exception
           /\ Val(call.error).invocation = call.invocation
           /\ call.invoked = call.config.max_attempts
    /\ (~IsNone(call.last_exception)
        /\ C35_Ends(call.config, Val(call.last_exception).class))
        => /\ call.pc = "raised"
           /\ call.error = call.last_exception
           /\ call.invoked = call.failures
    /\ (call.pc = "raised" /\ call.config.max_attempts > 0)
        => \/ call.failures = call.config.max_attempts
           \/ C35_Ends(call.config, Val(call.last_exception).class)
    /\ (call.pc = "raised" /\ call.config.max_attempts = 0)
        => call.invoked = 0

C35_AtMostMaxAttempts == \A c \in 1..MaxRetryCalls : C35_Call(retry.calls[c])

\* C35 witness: one call returned after a failed attempt, another raised
\* after max_attempts >= 2 failures.
C35_Witness ==
    \E c, d \in 1..MaxRetryCalls :
        /\ retry.calls[c].pc = "returned"
        /\ retry.calls[c].failures = 1
        /\ retry.calls[c].invoked = 2
        /\ retry.calls[d].pc = "raised"
        /\ retry.calls[d].failures = retry.calls[d].config.max_attempts
        /\ retry.calls[d].failures >= 2

\* C36 (as stated): a failure that brings the failure counter to
\* failure_threshold leaves the breaker OPEN; a call made while the breaker
\* is OPEN and the timeout has not passed is refused and changes nothing
\* else; a call made while it is OPEN and the timeout has passed is let
\* through with the breaker HALF_OPEN; and when that call ends the breaker
\* is CLOSED if it returned and OPEN if it raised.
C36_Step(c) ==
    LET call == breaker.calls[c]
        after == breaker'.calls[c]
    IN /\ (call.pc = "func" /\ after.pc = "raised"
           /\ breaker'.failure_count >= FailureThreshold)
           => breaker'.state = "OPEN"
       /\ (call.pc = "idle" /\ after.pc # "idle" /\ breaker.state = "OPEN"
           /\ breaker.last_failure_time # Some("old"))
           => breaker' = [breaker EXCEPT !.calls[c].pc = "refused"]
       /\ (call.pc = "idle" /\ after.pc # "idle" /\ breaker.state = "OPEN"
           /\ breaker.last_failure_time = Some("old"))
           => after.pc = "func" /\ after.trial /\ breaker'.state = "HALF_OPEN"
       /\ (call.pc = "func" /\ call.trial /\ after.pc = "returned")
           => breaker'.state = "CLOSED"
       /\ (call.pc = "func" /\ call.trial /\ after.pc = "raised")
           => breaker'.state = "OPEN"

C36_BreakerCycle == [][\A c \in 1..MaxBreakerCalls : C36_Step(c)]_vars

\* C37 (as stated): whenever a call through the breaker returns, the
\* failure counter is 0 afterwards.
C37_SuccessStep(c) ==
    (breaker.calls[c].pc = "func" /\ breaker'.calls[c].pc = "returned")
    => breaker'.failure_count = 0

C37_SuccessResetsCounter == [][\A c \in 1..MaxBreakerCalls : C37_SuccessStep(c)]_vars
====
